---------------------------- MODULE Spec2Model ----------------------------
(***************************************************************************)
(* GraSQL query-analysis front end: do_parse_query (nif.rs), parse_graphql *)
(* (parser.rs), FieldPathExtractor (extraction.rs), the string interner    *)
(* (interning.rs) and the query cache (cache.rs).                          *)
(*                                                                         *)
(* Field names are TLA+ strings.  A SymbolId (lasso Spur) is the position  *)
(* of a name in the process-wide interner, counted from 0.  The extractor  *)
(* is computed over names together with the ordered list of its first      *)
(* intern_str call per name; the calling thread replays those calls one by *)
(* one against the shared interner, and the symbol ids of its paths are    *)
(* read off the interner once the replay is complete.                      *)
(***************************************************************************)
EXTENDS Integers, Sequences, FiniteSets, TLC

(***************************************************************************)
(* Bounds                                                                  *)
(***************************************************************************)
\* do_parse_query calls started in the concurrent specification
MaxCalls == 3

\* do_parse_query calls started in the sequential specification
MaxSeqCalls == 2

\* Calling threads of the concurrent specification
NumThreads == 2

\* parse_graphql calls made in the specification of direct parser calls
MaxParseCalls == 2

\* do_parse_query calls started in the specification of the cache policy
MaxCacheCalls == 3

\* Seconds that pass in the specification of the cache policy
MaxTime == 3

\* Arenas created in the specification of record handles
MaxArenas == 2

(***************************************************************************)
(* Generic helpers                                                         *)
(***************************************************************************)
Range(s) == {s[i] : i \in 1..Len(s)}

\* All orderings of a finite set, as sequences without repetition.
Perms(S) == {f \in [1..Cardinality(S) -> S] : \A i, j \in 1..Cardinality(S) : f[i] = f[j] => i = j}

\* 1-based position of x in s (x occurs in s).
PosIn(s, x) == CHOOSE i \in 1..Len(s) : s[i] = x

\* Ord for Vec<u32>: element-wise, a strict prefix is smaller.
LexLess(a, b) ==
    \E k \in 1..(Len(b)) :
        /\ \A j \in 1..(k - 1) : j <= Len(a) /\ a[j] = b[j]
        /\ \/ Len(a) = k - 1
           \/ (k <= Len(a) /\ a[k] < b[k])

\* Call by value: v is evaluated once and F applied to the result.
With(v, F(_)) == CHOOSE r \in {F(x) : x \in {v}} : TRUE

(***************************************************************************)
(* graphql_query AST, as far as the program reads it                       *)
(***************************************************************************)
Obj(children) == [t |-> "Object", children |-> children]

Lst(children) == [t |-> "List", children |-> children]

Var == [t |-> "Variable"]

Scalar == [t |-> "Scalar"]

NullV == [t |-> "Null"]

Member(name, value) == [name |-> name, value |-> value]

Field(name, arguments, selections) ==
    [t |-> "Field", name |-> name, arguments |-> arguments,
     selections |-> selections, directives |-> FALSE]

FieldDir(name, arguments, selections) ==
    [t |-> "Field", name |-> name, arguments |-> arguments,
     selections |-> selections, directives |-> TRUE]

FragmentSpread == [t |-> "FragmentSpread"]

InlineFragment == [t |-> "InlineFragment"]

\* Definition::Operation; name "" stands for an anonymous operation.
Operation(kind, name, selections) ==
    [t |-> "Operation", operation |-> kind, name |-> name,
     directives |-> FALSE, var_directives |-> FALSE, selections |-> selections]

FragmentDef == [t |-> "Fragment"]

IsField(sel) == sel.t = "Field"

\* str::starts_with over the names that occur in the query catalogue.
PrefixesOf(s) ==
    CASE s = "insert_users" -> {"insert_"}
      [] s = "update_users" -> {"update_"}
      [] s = "delete_users" -> {"delete_"}
      [] s = "upsert_users" -> {}
      [] s \in {"_eq", "_and", "_or", "_set", "_gt"} -> {"_"}
      [] OTHER -> {}

StartsWith(s, p) == p \in PrefixesOf(s)

\* Config as installed by init with the default prefixes.
DefaultConfig ==
    [insert_prefix |-> "insert_", update_prefix |-> "update_", delete_prefix |-> "delete_"]

NoConfig == [none |-> TRUE]

(***************************************************************************)
(* FieldPathExtractor                                                      *)
(*   st.field_paths   HashSet<FieldPath>                                   *)
(*   st.current_path  FieldPath                                            *)
(*   st.column_usage  HashMap<FieldPath, HashSet<SymbolId>>                *)
(*   st.interned      names in the order of their first intern_str call    *)
(*   st.err           "" or the Err message                                *)
(***************************************************************************)
NewExtractor ==
    [field_paths |-> {}, current_path |-> <<>>, column_usage |-> <<>>,
     interned |-> <<>>, err |-> ""]

\* intern_str as seen by one extraction: first calls are recorded in order.
InternName(st0, name) ==
    With(st0, LAMBDA st :
        IF name \in Range(st.interned) THEN st
        ELSE [st EXCEPT !.interned = Append(@, name)])

Push(st, name) == [st EXCEPT !.current_path = Append(@, name)]

Pop(st0) ==
    With(st0, LAMBDA st :
        IF Len(st.current_path) = 0 THEN st
        ELSE [st EXCEPT !.current_path = SubSeq(@, 1, Len(@) - 1)])

InsertPath(st, path) == [st EXCEPT !.field_paths = @ \cup {path}]

\* column_usage.entry(path).or_insert_with(HashSet::new).insert(col)
AddColumn(st, path, col) ==
    [st EXCEPT !.column_usage =
        [p \in (DOMAIN @) \cup {path} |->
            IF p = path
            THEN (IF p \in DOMAIN @ THEN @[p] ELSE {}) \cup {col}
            ELSE @[p]]]

Fail(st, msg) == [st EXCEPT !.err = msg]

\* All but the last element of current_path.
TablePath(st) == SubSeq(st.current_path, 1, Len(st.current_path) - 1)

enter_field(st, field) ==
    With(Push(InternName(st, field.name), field.name), LAMBDA s1 :
        IF field.selections # <<>> THEN InsertPath(s1, s1.current_path) ELSE s1)

\* leave_field returning without the pop.
leave_field_no_pop(st) == st

leave_field(st) == Pop(st)

RECURSIVE VisitSelections(_, _, _)
RECURSIVE VisitField(_, _)
\* selection_set.visit(&mut ctx, self): enter_field / children / leave_field.
VisitSelections(st, sels, i) ==
    IF i > Len(sels) THEN st
    ELSE VisitSelections(IF IsField(sels[i]) THEN VisitField(st, sels[i]) ELSE st, sels, i + 1)

VisitField(st, field) ==
    leave_field(VisitSelections(enter_field(st, field), field.selections, 1))

ReservedContainers == {"aggregate", "returning", "nodes"}

RECURSIVE GrandchildColumns_all(_, _, _)
\* The loop taking every grandchild field for a column, nested or not.
GrandchildColumns_all(st0, sels, i) ==
    IF i > Len(sels) THEN st0
    ELSE With(st0, LAMBDA st :
            LET g == sels[i]
                s1 == IF IsField(g)
                      THEN AddColumn(InternName(st, g.name), st.current_path, g.name)
                      ELSE st
            IN GrandchildColumns_all(s1, sels, i + 1))

RECURSIVE GrandchildColumns(_, _, _)
\* The loop over child_field.selection_set of an aggregate/returning/nodes child.
GrandchildColumns(st0, sels, i) ==
    IF i > Len(sels) THEN st0
    ELSE With(st0, LAMBDA st :
            LET g == sels[i]
                s1 == IF IsField(g) /\ g.selections = <<>>
                      THEN AddColumn(InternName(st, g.name), st.current_path, g.name)
                      ELSE st
            IN GrandchildColumns(s1, sels, i + 1))

RECURSIVE process_field_and_columns(_, _)
RECURSIVE ProcessChildren(_, _, _)
ProcessChildren(st0, sels, i) ==
    With(st0, LAMBDA st :
        IF i > Len(sels) \/ st.err # "" THEN st
        ELSE LET c == sels[i]
                 s1 == IF ~IsField(c) THEN st
                       ELSE IF c.selections = <<>>
                            THEN AddColumn(InternName(st, c.name), st.current_path, c.name)
                       ELSE IF c.name \in ReservedContainers
                            THEN process_field_and_columns(GrandchildColumns(st, c.selections, 1), c)
                       ELSE process_field_and_columns(st, c)
             IN ProcessChildren(s1, sels, i + 1))

process_field_and_columns(st, field) ==
    With(Push(InternName(st, field.name), field.name), LAMBDA s1 :
        With(IF field.selections # <<>>
             THEN ProcessChildren(InsertPath(s1, s1.current_path), field.selections, 1)
             ELSE s1,
             LAMBDA s2 : IF s2.err # "" THEN s2 ELSE Pop(s2)))

RECURSIVE ObjectColumns(_, _, _)
\* extract_object_columns, and the same loop inside extract_update_set.
ObjectColumns(st0, children, i) ==
    IF i > Len(children) THEN st0
    ELSE With(st0, LAMBDA st :
            ObjectColumns(AddColumn(InternName(st, children[i].name), st.current_path, children[i].name),
                          children, i + 1))

extract_object_columns(st, obj) == ObjectColumns(st, obj.children, 1)

RECURSIVE extract_mutation_objects(_, _, _)
RECURSIVE MutationItems(_, _, _)
RECURSIVE MutationItems_same_rule(_, _, _)
\* The loop handing each element on under the rule of the plural argument.
MutationItems_same_rule(st0, items, i) ==
    With(st0, LAMBDA st :
        IF i > Len(items) \/ st.err # "" THEN st
        ELSE MutationItems_same_rule(extract_mutation_objects(st, items[i], FALSE), items, i + 1))

\* The loop over list.children: every element is taken as a single object.
MutationItems(st0, items, i) ==
    With(st0, LAMBDA st :
        IF i > Len(items) \/ st.err # "" THEN st
        ELSE MutationItems(extract_mutation_objects(st, items[i], TRUE), items, i + 1))

\* The match accepting a variable without marking the path as a table.
extract_mutation_objects_skip_variable(st0, value, is_single_object) ==
    With(st0, LAMBDA st :
        CASE value.t = "Object" ->
                InsertPath(extract_object_columns(st, value), st.current_path)
          [] value.t = "List" ->
                IF is_single_object
                THEN Fail(st, "Expected a single object but got an array")
                ELSE With(MutationItems(st, value.children, 1), LAMBDA s1 :
                        IF s1.err # "" THEN s1 ELSE InsertPath(s1, s1.current_path))
          [] OTHER -> st)

extract_mutation_objects(st0, value, is_single_object) ==
    With(st0, LAMBDA st :
        CASE value.t = "Object" ->
                InsertPath(extract_object_columns(st, value), st.current_path)
          [] value.t = "List" ->
                IF is_single_object
                THEN Fail(st, "Expected a single object but got an array")
                ELSE With(MutationItems(st, value.children, 1), LAMBDA s1 :
                        IF s1.err # "" THEN s1 ELSE InsertPath(s1, s1.current_path))
          [] value.t = "Variable" -> InsertPath(st, st.current_path)
          [] OTHER -> st)

\* extract_update_set without the Err branch for values that are no object.
extract_update_set_lenient(st0, value) ==
    With(st0, LAMBDA st :
        CASE value.t = "Object" ->
                InsertPath(ObjectColumns(st, value.children, 1), st.current_path)
          [] value.t = "Variable" -> InsertPath(st, st.current_path)
          [] OTHER -> st)

extract_update_set(st0, value) ==
    With(st0, LAMBDA st :
        CASE value.t = "Object" ->
                InsertPath(ObjectColumns(st, value.children, 1), st.current_path)
          [] value.t = "Variable" -> InsertPath(st, st.current_path)
          [] OTHER -> Fail(st, "_set parameter must be an object"))

RECURSIVE extract_filter_paths_from_value(_, _)
RECURSIVE FilterMembers(_, _, _)
RECURSIVE FilterItems(_, _, _)
FilterItems(st0, items, i) ==
    With(st0, LAMBDA st :
        IF i > Len(items) \/ st.err # "" THEN st
        ELSE FilterItems(extract_filter_paths_from_value(st, items[i]), items, i + 1))

\* The loop body recording the path of every ordinary member, whatever its value.
FilterMember_path_always(p1, m) ==
    IF m.value.t = "Object"
    THEN LET contains_operator_fields ==
                 \E k \in 1..Len(m.value.children) :
                     StartsWith(m.value.children[k].name, "_")
         IN With(InsertPath(p1, p1.current_path), LAMBDA p2 :
                With(IF contains_operator_fields /\ Len(p2.current_path) > 1
                     THEN AddColumn(p2, TablePath(p2), m.name) ELSE p2, LAMBDA p3 :
                    With(extract_filter_paths_from_value(p3, m.value), LAMBDA p4 :
                        IF p4.err # "" THEN p4 ELSE Pop(p4))))
    ELSE Pop(IF Len(p1.current_path) > 1
             THEN AddColumn(InsertPath(p1, p1.current_path), TablePath(p1), m.name) ELSE p1)

\* The body of the loop over obj.children for a member that is no operator:
\* p1 is the extractor after current_path.push(field_id).
FilterMember(p1, m) ==
    IF m.value.t = "Object"
    THEN LET is_direct_operator == StartsWith(m.name, "_")
             contains_operator_fields ==
                 \E k \in 1..Len(m.value.children) :
                     StartsWith(m.value.children[k].name, "_")
         IN With(IF ~is_direct_operator THEN InsertPath(p1, p1.current_path) ELSE p1, LAMBDA p2 :
                With(IF contains_operator_fields /\ Len(p2.current_path) > 1
                     THEN AddColumn(p2, TablePath(p2), m.name) ELSE p2, LAMBDA p3 :
                    With(extract_filter_paths_from_value(p3, m.value), LAMBDA p4 :
                        IF p4.err # "" THEN p4 ELSE Pop(p4))))
    ELSE Pop(IF Len(p1.current_path) > 1
             THEN AddColumn(p1, TablePath(p1), m.name) ELSE p1)

\* The loop over obj.children of a Value::Object.
FilterMembers(st0, children, i) ==
    With(st0, LAMBDA st :
        IF i > Len(children) \/ st.err # "" THEN st
        ELSE LET m == children[i]
                 s1 ==
                   IF StartsWith(m.name, "_")
                   THEN IF m.name \in {"_and", "_or"} /\ m.value.t = "List"
                        THEN FilterItems(st, m.value.children, 1)
                        ELSE st
                   ELSE With(Push(InternName(st, m.name), m.name), LAMBDA p1 : FilterMember(p1, m))
             IN FilterMembers(s1, children, i + 1))

extract_filter_paths_from_value(st, value) ==
    CASE value.t = "Object" -> FilterMembers(st, value.children, 1)
      [] value.t = "List" -> FilterItems(st, value.children, 1)
      [] OTHER -> st

RECURSIVE process_field_arguments(_, _, _)
RECURSIVE ProcessArguments(_, _, _, _)
RECURSIVE ProcessNested(_, _, _, _)
\* The loop over field.arguments.children.
ProcessArguments(st0, field, config, i) ==
    With(st0, LAMBDA st :
        IF i > Len(field.arguments) \/ st.err # "" THEN st
        ELSE LET arg == field.arguments[i]
                 s1 ==
                   IF arg.name = "where"
                   THEN extract_filter_paths_from_value(st, arg.value)
                   ELSE IF StartsWith(field.name, config.insert_prefix)
                           /\ arg.name \in {"objects", "object"}
                   THEN extract_mutation_objects(st, arg.value, arg.name = "object")
                   ELSE IF StartsWith(field.name, config.update_prefix) /\ arg.name = "_set"
                   THEN extract_update_set(st, arg.value)
                   ELSE st
             IN ProcessArguments(s1, field, config, i + 1))

ProcessNested(st0, sels, config, i) ==
    With(st0, LAMBDA st :
        IF i > Len(sels) \/ st.err # "" THEN st
        ELSE ProcessNested(IF IsField(sels[i]) THEN process_field_arguments(st, sels[i], config) ELSE st,
                           sels, config, i + 1))

process_field_arguments(st, field, config) ==
    With(Push(InternName(st, field.name), field.name), LAMBDA s1 :
        With(IF field.selections # <<>> THEN InsertPath(s1, s1.current_path) ELSE s1, LAMBDA s2 :
            IF config = NoConfig THEN Fail(s2, "GraSQL not initialized; missing config")
            ELSE With(ProcessArguments(s2, field, config, 1), LAMBDA s3 :
                    With(IF s3.err # "" THEN s3 ELSE ProcessNested(s3, field.selections, config, 1),
                         LAMBDA s4 : IF s4.err # "" THEN s4 ELSE Pop(s4)))))

RECURSIVE FilterRoots(_, _, _, _)
\* extract_filter_paths: current_path.clear() before every root selection.
FilterRoots(st0, sels, config, i) ==
    With(st0, LAMBDA st :
        IF i > Len(sels) \/ st.err # "" THEN st
        ELSE FilterRoots(IF IsField(sels[i])
                         THEN process_field_arguments([st EXCEPT !.current_path = <<>>], sels[i], config)
                         ELSE st,
                         sels, config, i + 1))

extract_filter_paths(st, operation, config) == FilterRoots(st, operation.selections, config, 1)

RECURSIVE ColumnRoots(_, _, _)
ColumnRoots(st0, sels, i) ==
    With(st0, LAMBDA st :
        IF i > Len(sels) \/ st.err # "" THEN st
        ELSE ColumnRoots(IF IsField(sels[i])
                         THEN process_field_and_columns([st EXCEPT !.current_path = <<>>], sels[i])
                         ELSE st,
                         sels, i + 1))

extract_columns_from_selection_sets(st, operation) == ColumnRoots(st, operation.selections, 1)

RECURSIVE ExtractDefinitions(_, _, _, _)
ExtractDefinitions(st0, defs, config, i) ==
    With(st0, LAMBDA st :
        IF i > Len(defs) \/ st.err # "" THEN st
        ELSE LET d == defs[i]
                 s1 == IF d.t # "Operation" THEN st
                       ELSE With(extract_filter_paths(VisitSelections(st, d.selections, 1), d, config),
                                 LAMBDA b : IF b.err # "" THEN b
                                            ELSE extract_columns_from_selection_sets(b, d))
             IN ExtractDefinitions(s1, defs, config, i + 1))

\* FieldPathExtractor::extract on a fresh extractor.
extract(document, config) ==
    LET has_operation == \E i \in 1..Len(document) : document[i].t = "Operation"
    IN With(ExtractDefinitions(NewExtractor, document, config, 1), LAMBDA s :
            IF s.err # "" THEN s
            ELSE IF ~has_operation THEN Fail(s, "No operation found in document")
            ELSE s)

(***************************************************************************)
(* Query texts.  A text is identified by a number; Parse gives what        *)
(* Document::parse returns for it: a syntax error or the list of           *)
(* definitions.                                                            *)
(***************************************************************************)
IdEq == Obj(<<Member("_eq", Scalar)>>)

ReturningId == Field("returning", <<>>, <<Field("id", <<>>, <<>>)>>)

\* 1  { users { id name } }
\* 2  { users { id posts { title } } }
\* 3  { users(where: { profile: { avatar: { _eq: "x" } } }) { id } }
\* 4  mutation { insert_users(objects: [{ name: "a" }]) { returning { id } } }
\* 5  mutation { update_users(where: { id: { _eq: 1 } }, _set: { name: "x" }) { returning { id } } }
\* 6  { posts { title } }
\* 7  { users(where: { id: { _eq: 1 } }) }
\* 8  { users { invalid syntax }
\* 9  { users @include(if: true) { id } }
\* 10 mutation { update_users(_set: 5) { returning { id } } }
\* 11 mutation { insert_users(object: [{ name: "a" }]) { returning { id } } }
\* 12 fragment F on User { id }  { users { ...F } }
\* 13 { users { ... on User { id } } }
\* 14 query @cached { users { id } }
\* 15 query ($n: Int @deprecated) { users(limit: $n) { id name } }
\* 16 query GetUsers { users { id } }
\* 17 { users { posts { title } } }
\* 18 mutation { update_users(_set: 5) { id } }
\* 19 { users { posts { title } id } }
Documents ==
    << <<Operation("Query", "", <<Field("users", <<>>, <<Field("id", <<>>, <<>>), Field("name", <<>>, <<>>)>>)>>)>>,
       <<Operation("Query", "", <<Field("users", <<>>,
            <<Field("id", <<>>, <<>>), Field("posts", <<>>, <<Field("title", <<>>, <<>>)>>)>>)>>)>>,
       <<Operation("Query", "", <<Field("users",
            <<Member("where", Obj(<<Member("profile", Obj(<<Member("avatar", IdEq)>>))>>))>>,
            <<Field("id", <<>>, <<>>)>>)>>)>>,
       <<Operation("Mutation", "", <<Field("insert_users",
            <<Member("objects", Lst(<<Obj(<<Member("name", Scalar)>>)>>))>>,
            <<ReturningId>>)>>)>>,
       <<Operation("Mutation", "", <<Field("update_users",
            <<Member("where", Obj(<<Member("id", IdEq)>>)), Member("_set", Obj(<<Member("name", Scalar)>>))>>,
            <<ReturningId>>)>>)>>,
       <<Operation("Query", "", <<Field("posts", <<>>, <<Field("title", <<>>, <<>>)>>)>>)>>,
       <<Operation("Query", "", <<Field("users", <<Member("where", Obj(<<Member("id", IdEq)>>))>>, <<>>)>>)>>,
       <<>>,
       <<Operation("Query", "", <<FieldDir("users", <<>>, <<Field("id", <<>>, <<>>)>>)>>)>>,
       <<Operation("Mutation", "", <<Field("update_users", <<Member("_set", Scalar)>>, <<ReturningId>>)>>)>>,
       <<Operation("Mutation", "", <<Field("insert_users",
            <<Member("object", Lst(<<Obj(<<Member("name", Scalar)>>)>>))>>,
            <<ReturningId>>)>>)>>,
       <<FragmentDef, Operation("Query", "", <<Field("users", <<>>, <<FragmentSpread>>)>>)>>,
       <<Operation("Query", "", <<Field("users", <<>>, <<InlineFragment>>)>>)>>,
       <<[Operation("Query", "", <<Field("users", <<>>, <<Field("id", <<>>, <<>>)>>)>>) EXCEPT !.directives = TRUE]>>,
       <<[Operation("Query", "", <<Field("users", <<Member("limit", Var)>>,
            <<Field("id", <<>>, <<>>), Field("name", <<>>, <<>>)>>)>>)
            EXCEPT !.var_directives = TRUE]>>,
       <<Operation("Query", "GetUsers", <<Field("users", <<>>, <<Field("id", <<>>, <<>>)>>)>>)>>,
       <<Operation("Query", "", <<Field("users", <<>>,
            <<Field("posts", <<>>, <<Field("title", <<>>, <<>>)>>)>>)>>)>>,
       <<Operation("Mutation", "", <<Field("update_users", <<Member("_set", Scalar)>>,
            <<Field("id", <<>>, <<>>)>>)>>)>>,
       <<Operation("Query", "", <<Field("users", <<>>,
            <<Field("posts", <<>>, <<Field("title", <<>>, <<>>)>>), Field("id", <<>>, <<>>)>>)>>)>> >>

AllTexts == 1..Len(Documents)

\* Texts the GraphQL parser rejects.
SyntaxErrors == {8}

\* Texts analysed by the concurrent specification.
ConcTexts == {18, 19}

\* A root field that selects one scalar: name { id }
RootField(name) == Field(name, <<>>, <<Field("id", <<>>, <<>>)>>)

\* Operation definitions that documents with several operations are built of:
\*   query { users { id } }            subscription { users { id } }
\*   mutation { insert_users { id } }  mutation { update_users { id } }
\*   mutation { delete_users { id } }  mutation { upsert_users { id } }
\*   mutation { delete_users { id } insert_users { id } }
OperationShapes ==
    << Operation("Query", "", <<RootField("users")>>),
       Operation("Subscription", "", <<RootField("users")>>),
       Operation("Mutation", "", <<RootField("insert_users")>>),
       Operation("Mutation", "", <<RootField("update_users")>>),
       Operation("Mutation", "", <<RootField("delete_users")>>),
       Operation("Mutation", "", <<RootField("upsert_users")>>),
       Operation("Mutation", "", <<RootField("delete_users"), RootField("insert_users")>>) >>

\* Every document of one or of two of these operation definitions, and three
\* documents of three.
OperationDocuments ==
    [k \in 1..Len(OperationShapes) |-> <<OperationShapes[k]>>]
    \o [k \in 1..(Len(OperationShapes) * Len(OperationShapes)) |->
            <<OperationShapes[((k - 1) \div Len(OperationShapes)) + 1],
              OperationShapes[((k - 1) % Len(OperationShapes)) + 1]>>]
    \o << <<OperationShapes[1], OperationShapes[3], OperationShapes[2]>>,
          <<OperationShapes[4], OperationShapes[1], OperationShapes[5]>>,
          <<OperationShapes[2], OperationShapes[1], OperationShapes[1]>> >>

\* The texts of the documents with several operations.
OperationTexts == (Len(Documents) + 1)..(Len(Documents) + Len(OperationDocuments))

\* The documents of the two texts of CollisionQueries.
CollisionDocuments ==
    << <<Operation("Query", "Q0e91d960fc7442c2", <<RootField("users")>>)>>,
       <<Operation("Query", "Q40dc98d661b078e1", <<RootField("users")>>)>> >>

CollisionTexts ==
    (Len(Documents) + Len(OperationDocuments) + 1)
        ..(Len(Documents) + Len(OperationDocuments) + Len(CollisionDocuments))

\* Document::parse(&ctx, query)
Parse(q) ==
    IF q \in SyntaxErrors THEN [ok |-> FALSE, document |-> <<>>]
    ELSE IF q \in CollisionTexts
    THEN [ok |-> TRUE, document |-> CollisionDocuments[q - Len(Documents) - Len(OperationDocuments)]]
    ELSE IF q \in OperationTexts
    THEN [ok |-> TRUE, document |-> OperationDocuments[q - Len(Documents)]]
    ELSE [ok |-> TRUE, document |-> Documents[q]]

(***************************************************************************)
(* generate_query_id on query texts: the fingerprint of the raw bytes and  *)
(* its rendering.  A 64-bit value is held as its 16 hexadecimal digits,    *)
(* most significant first; a rendered string as the sequence of its        *)
(* characters.                                                             *)
(***************************************************************************)
SampleQueries ==
    {"", "{ users { id } }", "{ users { id name } }", "{ users { posts { title } id } }",
     "mutation { update_users(_set: 5) { id } }", "{ users(where:{id:{_eq:1}}) }",
     "query GetUsers { users { id } }", "subscription { users { id } }",
     "{ users(limit: 43) { id } }", "{ posts { id } }", "{ users { name } }",
     "{ users(limit: 634) { id } }"}

\* xxh3_64(query.as_bytes()) on the sample texts (XXH3_64bits, seed 0).
xxh3_64(query) ==
    CASE query = "" -> <<2, 13, 0, 6, 8, 0, 0, 5, 3, 8, 13, 3, 9, 4, 12, 2>>
      [] query = "{ users { id } }" -> <<0, 13, 3, 13, 10, 10, 13, 2, 7, 7, 2, 15, 0, 1, 10, 4>>
      [] query = "{ users { id name } }" -> <<2, 13, 15, 11, 11, 4, 5, 9, 3, 7, 4, 7, 0, 13, 1, 12>>
      [] query = "{ users { posts { title } id } }" -> <<3, 4, 8, 3, 7, 9, 2, 2, 7, 9, 15, 5, 12, 2, 1, 12>>
      [] query = "mutation { update_users(_set: 5) { id } }" -> <<0, 10, 4, 9, 1, 9, 1, 8, 14, 6, 10, 6, 0, 3, 3, 12>>
      [] query = "{ users(where:{id:{_eq:1}}) }" -> <<0, 10, 7, 13, 3, 1, 9, 7, 5, 5, 3, 8, 8, 14, 12, 0>>
      [] query = "query GetUsers { users { id } }" -> <<11, 3, 4, 9, 12, 14, 5, 2, 12, 6, 0, 12, 10, 13, 2, 11>>
      [] query = "subscription { users { id } }" -> <<3, 4, 14, 6, 4, 14, 6, 3, 5, 6, 8, 1, 7, 12, 4, 14>>
      [] query = "{ users(limit: 43) { id } }" -> <<0, 1, 14, 15, 6, 13, 9, 12, 1, 8, 14, 6, 3, 12, 1, 15>>
      [] query = "{ posts { id } }" -> <<7, 11, 0, 6, 0, 3, 5, 1, 15, 14, 2, 10, 8, 3, 0, 5>>
      [] query = "{ users { name } }" -> <<1, 7, 12, 15, 3, 0, 12, 15, 0, 14, 4, 15, 4, 3, 12, 15>>
      [] query = "{ users(limit: 634) { id } }" -> <<0, 0, 4, 14, 6, 4, 0, 5, 6, 9, 8, 4, 6, 9, 9, 5>>
      [] query = "query Q0e91d960fc7442c2 { users { id } }" -> <<5, 13, 13, 7, 1, 5, 15, 7, 11, 8, 3, 1, 13, 0, 8, 4>>
      [] query = "query Q40dc98d661b078e1 { users { id } }" -> <<5, 13, 13, 7, 1, 5, 15, 7, 11, 8, 3, 1, 13, 0, 8, 4>>

HexDigits == <<"0", "1", "2", "3", "4", "5", "6", "7", "8", "9", "a", "b", "c", "d", "e", "f">>

\* The digits of a value from its first non-zero digit on; the last digit
\* is kept when the value is zero.
RECURSIVE Significant(_)
Significant(digits) ==
    IF Len(digits) > 1 /\ Head(digits) = 0 THEN Significant(Tail(digits)) ELSE digits

\* format!("{:x}", hash): lowercase, no width, no fill.
LowerHex(hash) == [i \in 1..Len(Significant(hash)) |-> HexDigits[Significant(hash)[i] + 1]]

\* generate_query_id on the text itself.
QueryIdOf(query) == LowerHex(xxh3_64(query))

\* Two texts of equal fingerprint, 5dd715f7b831d084.
CollisionQueries ==
    <<"query Q0e91d960fc7442c2 { users { id } }", "query Q40dc98d661b078e1 { users { id } }">>

\* The query id of a catalogue text.  Catalogue texts are numbered and the
\* fingerprint is taken to separate them, so the id of text q is written q,
\* except for the two texts of equal fingerprint, whose id is the rendering
\* of that fingerprint.
generate_query_id(q) ==
    IF q \in CollisionTexts THEN QueryIdOf(CollisionQueries[q - Len(Documents) - Len(OperationDocuments)]) ELSE q

(***************************************************************************)
(* parse_graphql: unsupported features, operation kind, operation name     *)
(***************************************************************************)
RECURSIVE check_field_for_unsupported_features(_)
RECURSIVE CheckSelections(_, _)
\* First error among the selections, "" when there is none.
CheckSelections(sels, i) ==
    IF i > Len(sels) THEN ""
    ELSE LET s == sels[i]
             e == CASE s.t = "FragmentSpread" -> "GraphQL fragment spreads are not supported"
                    [] s.t = "InlineFragment" -> "GraphQL inline fragments are not supported"
                    [] OTHER -> IF s.directives THEN "GraphQL directives are not supported"
                                ELSE check_field_for_unsupported_features(s)
         IN IF e # "" THEN e ELSE CheckSelections(sels, i + 1)

check_field_for_unsupported_features(field) == CheckSelections(field.selections, 1)

RECURSIVE CheckDefinitions(_, _)
\* The loop of parse_graphql over document.definitions (parser.rs 107-144).
CheckDefinitions(defs, i) ==
    IF i > Len(defs) THEN ""
    ELSE LET d == defs[i]
             e == IF d.t = "Fragment" THEN "GraphQL fragments are not supported"
                  ELSE IF d.directives THEN "GraphQL directives are not supported"
                  ELSE CheckSelections(d.selections, 1)
         IN IF e # "" THEN e ELSE CheckDefinitions(defs, i + 1)

\* From<graphql_query::ast::OperationKind> for GraphQLOperationKind
OperationKindInto(kind) ==
    CASE kind = "Query" -> "Query"
      [] kind = "Mutation" -> "InsertMutation"
      [] OTHER -> "Subscription"

MutationKinds == {"InsertMutation", "UpdateMutation", "DeleteMutation"}

RECURSIVE KindLoop_first_only(_, _, _, _)
\* The loop leaving at the first operation definition it has classified.
KindLoop_first_only(defs, config, i, primary_kind) ==
    IF i > Len(defs) THEN [early |-> FALSE, kind |-> primary_kind]
    ELSE LET d == defs[i]
         IN IF d.t # "Operation" THEN KindLoop_first_only(defs, config, i + 1, primary_kind)
            ELSE IF d.operation = "Mutation"
            THEN IF d.selections = <<>> \/ ~IsField(d.selections[1])
                 THEN KindLoop_first_only(defs, config, i + 1, primary_kind)
                 ELSE IF config = NoConfig
                 THEN [early |-> TRUE, kind |-> "InsertMutation"]
                 ELSE LET field_name == d.selections[1].name
                      IN [early |-> FALSE,
                          kind |-> IF StartsWith(field_name, config.insert_prefix) THEN "InsertMutation"
                                   ELSE IF StartsWith(field_name, config.update_prefix) THEN "UpdateMutation"
                                   ELSE IF StartsWith(field_name, config.delete_prefix) THEN "DeleteMutation"
                                   ELSE "InsertMutation"]
            ELSE [early |-> FALSE, kind |-> OperationKindInto(d.operation)]

RECURSIVE KindLoop_no_priority(_, _, _, _)
\* The loop with the non-mutation branch overwriting primary_kind always.
KindLoop_no_priority(defs, config, i, primary_kind) ==
    IF i > Len(defs) THEN [early |-> FALSE, kind |-> primary_kind]
    ELSE LET d == defs[i]
         IN IF d.t # "Operation" THEN KindLoop_no_priority(defs, config, i + 1, primary_kind)
            ELSE IF d.operation = "Mutation"
            THEN IF d.selections = <<>> \/ ~IsField(d.selections[1])
                 THEN KindLoop_no_priority(defs, config, i + 1, primary_kind)
                 ELSE IF config = NoConfig
                 THEN [early |-> TRUE, kind |-> "InsertMutation"]
                 ELSE LET field_name == d.selections[1].name
                          k == IF StartsWith(field_name, config.insert_prefix) THEN "InsertMutation"
                               ELSE IF StartsWith(field_name, config.update_prefix) THEN "UpdateMutation"
                               ELSE IF StartsWith(field_name, config.delete_prefix) THEN "DeleteMutation"
                               ELSE "InsertMutation"
                      IN KindLoop_no_priority(defs, config, i + 1, k)
            ELSE KindLoop_no_priority(defs, config, i + 1, OperationKindInto(d.operation))

RECURSIVE KindLoop(_, _, _, _)
\* The loop of determine_operation_kind; returns [done, kind]: done when the
\* loop left through one of its early returns.
KindLoop(defs, config, i, primary_kind) ==
    IF i > Len(defs) THEN [early |-> FALSE, kind |-> primary_kind]
    ELSE LET d == defs[i]
         IN IF d.t # "Operation" THEN KindLoop(defs, config, i + 1, primary_kind)
            ELSE IF d.operation = "Mutation"
            THEN IF d.selections = <<>> \/ ~IsField(d.selections[1])
                 THEN KindLoop(defs, config, i + 1, primary_kind)
                 ELSE IF config = NoConfig
                 THEN [early |-> TRUE, kind |-> "InsertMutation"]
                 ELSE LET field_name == d.selections[1].name
                          k == IF StartsWith(field_name, config.insert_prefix) THEN "InsertMutation"
                               ELSE IF StartsWith(field_name, config.update_prefix) THEN "UpdateMutation"
                               ELSE IF StartsWith(field_name, config.delete_prefix) THEN "DeleteMutation"
                               ELSE "InsertMutation"
                      IN KindLoop(defs, config, i + 1, k)
            ELSE LET kind == OperationKindInto(d.operation)
                     k == IF kind \in MutationKinds THEN kind
                          ELSE IF primary_kind = "Query" THEN kind
                          ELSE primary_kind
                 IN KindLoop(defs, config, i + 1, k)

determine_operation_kind(document, config) ==
    LET r == KindLoop(document, config, 1, "Query")
        has_operation == \E i \in 1..Len(document) : document[i].t = "Operation"
    IN IF r.early THEN [ok |-> TRUE, kind |-> r.kind]
       ELSE IF ~has_operation THEN [ok |-> FALSE, kind |-> "Query"]
       ELSE [ok |-> TRUE, kind |-> r.kind]

\* The name of the first operation definition, "" when it has none.
OperationName(document) ==
    IF \E i \in 1..Len(document) : document[i].t = "Operation"
    THEN document[CHOOSE i \in 1..Len(document) :
                    /\ document[i].t = "Operation"
                    /\ \A j \in 1..(i - 1) : document[j].t # "Operation"].name
    ELSE ""

\* parse_graphql up to and including extractor.extract (parser.rs 93-167):
\* err is "" or the message returned, ext the extractor when it was run.
Analyze(q, config) ==
    LET p == Parse(q)
        unsupported == CheckDefinitions(p.document, 1)
        kind == determine_operation_kind(p.document, config)
    IN IF ~p.ok THEN [err |-> "Failed to parse GraphQL query", ran |-> FALSE]
       ELSE IF unsupported # "" THEN [err |-> unsupported, ran |-> FALSE]
       ELSE IF ~kind.ok THEN [err |-> "No operations found in document", ran |-> FALSE]
       ELSE With(extract(p.document, config), LAMBDA ext :
                [err |-> ext.err, ran |-> TRUE, operation_kind |-> kind.kind,
                 operation_name |-> OperationName(p.document), ext |-> ext])

(***************************************************************************)
(* String interner and the symbol -> index projection                      *)
(***************************************************************************)
\* An interner that puts a new name in front of the ones it holds.
intern_str_in_front(intr, name) == IF name \in Range(intr) THEN intr ELSE <<name>> \o intr

\* Rodeo::get_or_intern: the interner after intern_str(name).
intern_str(intr, name) == IF name \in Range(intr) THEN intr ELSE Append(intr, name)

\* The Spur of an interned name.
SymbolId(intr, name) == PosIn(intr, name) - 1

\* get_all_strings: Rodeo::strings() in assignment order.
get_all_strings(intr) == intr

\* symbol_to_index counting positions from 1.
symbol_to_index_from_one(strings, intr) ==
    [sym \in {SymbolId(intr, strings[i]) : i \in 1..Len(strings)} |->
        (CHOOSE i \in 1..Len(strings) : SymbolId(intr, strings[i]) = sym)]

\* symbol_to_index: for (i, name) in strings.iter().enumerate(),
\* insert(intern_str(name), i).
symbol_to_index(strings, intr) ==
    [sym \in {SymbolId(intr, strings[i]) : i \in 1..Len(strings)} |->
        (CHOOSE i \in 1..Len(strings) : SymbolId(intr, strings[i]) = sym) - 1]

\* A path of names as the FieldPath of symbol ids the extractor holds.
SymPath(intr, path) == [k \in 1..Len(path) |-> SymbolId(intr, path[k])]

SymPaths(intr, field_paths) == {SymPath(intr, p) : p \in field_paths}

SymColumns(intr, column_usage) ==
    [sp \in {SymPath(intr, p) : p \in DOMAIN column_usage} |->
        {SymbolId(intr, c) : c \in column_usage[CHOOSE p \in DOMAIN column_usage : SymPath(intr, p) = sp]}]

(***************************************************************************)
(* Resolution-request encoding                                             *)
(***************************************************************************)
Missing == -1

Lookup(map, sym) == IF sym \in DOMAIN map THEN map[sym] ELSE Missing

\* One block of paths: the length followed by the index of every segment.
PathBlock(path, s2i) == <<Len(path)>> \o [k \in 1..Len(path) |-> Lookup(s2i, path[k])]

PathType(path) == IF Len(path) = 1 THEN 0 ELSE 1

RECURSIVE EncodePaths_dir_after(_, _, _, _)
\* The path loop recording the offset after the block was appended.
EncodePaths_dir_after(order, s2i, i, acc0) ==
    IF i > Len(order) THEN acc0
    ELSE With(acc0, LAMBDA acc :
            EncodePaths_dir_after(order, s2i, i + 1,
                [paths |-> acc.paths \o PathBlock(order[i], s2i),
                 path_dir |-> Append(acc.path_dir, Len(acc.paths \o PathBlock(order[i], s2i))),
                 path_types |-> Append(acc.path_types, PathType(order[i]))]))

RECURSIVE EncodePaths(_, _, _, _)
\* The path loop (parser.rs 184-203, nif.rs 190-210) over the paths in the
\* order given; acc holds paths, path_dir and path_types built so far.
EncodePaths(order, s2i, i, acc0) ==
    IF i > Len(order) THEN acc0
    ELSE With(acc0, LAMBDA acc :
            EncodePaths(order, s2i, i + 1,
                [paths |-> acc.paths \o PathBlock(order[i], s2i),
                 path_dir |-> Append(acc.path_dir, Len(acc.paths)),
                 path_types |-> Append(acc.path_types, PathType(order[i]))]))

RECURSIVE EncodeCols_keep_empty(_, _, _, _, _, _)
\* The cols loop pushing an entry for every table path, columns or not.
EncodeCols_keep_empty(order, column_usage, column_order, s2i, i, acc) ==
    IF i > Len(order) THEN acc
    ELSE LET path == order[i]
             column_indices ==
                 IF path \in DOMAIN column_usage
                 THEN LET known == SelectSeq(column_order[path], LAMBDA c : c \in DOMAIN s2i)
                      IN [k \in 1..Len(known) |-> s2i[known[k]]]
                 ELSE <<>>
             next == IF Len(path) # 1 THEN acc
                     ELSE Append(acc, <<Lookup(s2i, path[1]), column_indices>>)
         IN EncodeCols_keep_empty(order, column_usage, column_order, s2i, i + 1, next)

RECURSIVE EncodeCols(_, _, _, _, _, _)
\* The cols loop (parser.rs 207-235, nif.rs 217-242): column_order gives, for
\* every key of column_usage, the iteration order of its HashSet.
EncodeCols(order, column_usage, column_order, s2i, i, acc) ==
    IF i > Len(order) THEN acc
    ELSE LET path == order[i]
             column_indices ==
                 IF path \in DOMAIN column_usage
                 THEN LET known == SelectSeq(column_order[path], LAMBDA c : c \in DOMAIN s2i)
                      IN [k \in 1..Len(known) |-> s2i[known[k]]]
                 ELSE <<>>
             next == IF Len(path) # 1 THEN acc
                     ELSE IF path \in DOMAIN column_usage /\ column_indices # <<>>
                     THEN Append(acc, <<Lookup(s2i, path[1]), column_indices>>)
                     ELSE acc
         IN EncodeCols(order, column_usage, column_order, s2i, i + 1, next)

\* op_type with the subscription arm giving the query code.
OpType_subscription_as_query(operation, field_name, config) ==
    CASE operation = "Query" -> 0
      [] operation = "Mutation" ->
            IF StartsWith(field_name, config.insert_prefix) THEN 1
            ELSE IF StartsWith(field_name, config.update_prefix) THEN 2
            ELSE IF StartsWith(field_name, config.delete_prefix) THEN 3
            ELSE 1
      [] OTHER -> 0

OpType(operation, field_name, config) ==
    CASE operation = "Query" -> 0
      [] operation = "Mutation" ->
            IF StartsWith(field_name, config.insert_prefix) THEN 1
            ELSE IF StartsWith(field_name, config.update_prefix) THEN 2
            ELSE IF StartsWith(field_name, config.delete_prefix) THEN 3
            ELSE 1
      [] OTHER -> 4

RECURSIVE EncodeOpsOf(_, _, _, _, _, _)
EncodeOpsOf(op, intr, s2i, config, i, acc) ==
    IF i > Len(op.selections) THEN acc
    ELSE LET f == op.selections[i]
         IN EncodeOpsOf(op, intr, s2i, config, i + 1,
                IF IsField(f)
                THEN Append(acc, <<Lookup(s2i, SymbolId(intr, f.name)), OpType(op.operation, f.name, config)>>)
                ELSE acc)

RECURSIVE EncodeOps(_, _, _, _, _, _)
\* The ops loop (parser.rs 238-280, nif.rs 258-297).
EncodeOps(document, intr, s2i, config, i, acc) ==
    IF i > Len(document) THEN acc
    ELSE EncodeOps(document, intr, s2i, config, i + 1,
            IF document[i].t = "Operation"
            THEN EncodeOpsOf(document[i], intr, s2i, config, 1, acc)
            ELSE acc)

\* The iteration orders a HashMap<FieldPath, HashSet<SymbolId>> can show for
\* its column sets: one ordering per key.
ColumnOrders(column_usage) ==
    {f \in [DOMAIN column_usage -> UNION {Perms(column_usage[p]) : p \in DOMAIN column_usage}] :
        \A p \in DOMAIN column_usage : f[p] \in Perms(column_usage[p])}

\* sorted_paths.sort_by_key(|p| indices of p) (nif.rs 182-187).
SortedPaths(field_paths, s2i) ==
    LET key(p) == [k \in 1..Len(p) |-> IF p[k] \in DOMAIN s2i THEN s2i[p[k]] ELSE 0]
    IN CHOOSE order \in Perms(field_paths) :
            \A i \in 1..(Len(order) - 1) : ~LexLess(key(order[i + 1]), key(order[i]))

\* field_paths.iter() of the HashSet built by the extractor (parser.rs 184).
MissPathOrders(field_paths) == Perms(field_paths)

\* The ResolutionRequest assembled from an ordering of the paths.
BuildRequest(query_id, strings, order, column_usage, column_order, document, intr, s2i, config) ==
    LET enc == EncodePaths(order, s2i, 1, [paths |-> <<>>, path_dir |-> <<>>, path_types |-> <<>>])
    IN [query_id |-> query_id,
        strings |-> strings,
        paths |-> enc.paths,
        path_dir |-> enc.path_dir,
        path_types |-> enc.path_types,
        cols |-> EncodeCols(order, column_usage, column_order, s2i, 1, <<>>),
        ops |-> EncodeOps(document, intr, s2i, config, 1, <<>>)]

\* A symbol was not found in the mapping: the expect() panics of
\* parse_graphql, the Err returns of create_resolution_request_from_cached.
Corrupted(request) ==
    \/ \E i \in 1..Len(request.paths) : request.paths[i] = Missing
    \/ \E i \in 1..Len(request.cols) : request.cols[i][1] = Missing
    \/ \E i \in 1..Len(request.ops) : request.ops[i][1] = Missing

\* parse_graphql from get_all_strings on (parser.rs 169-344): every request
\* the call can return, given the interner at the snapshot.
MissRequests(query_id, field_paths, column_usage, document, intr, config) ==
    LET strings == get_all_strings(intr)
        s2i == symbol_to_index(strings, intr)
    IN {BuildRequest(query_id, strings, order, column_usage, co, document, intr, s2i, config) :
            order \in MissPathOrders(field_paths), co \in ColumnOrders(column_usage)}

\* CachedQueryInfo::document: the document behind document_ptr, which is the
\* parse of the entry's text kept alive by ast_context.
cached_document(cached_info) == Parse(cached_info.document_ptr).document

\* create_resolution_request_from_cached (nif.rs 151-309).
CachedRequests(query_id, cached_info, intr, config) ==
    LET strings == get_all_strings(intr)
        s2i == symbol_to_index(strings, intr)
        order == SortedPaths(cached_info.field_paths, s2i)
    IN {BuildRequest(query_id, strings, order, cached_info.column_usage, co,
                     cached_document(cached_info), intr, s2i, config) :
            co \in ColumnOrders(cached_info.column_usage)}

(***************************************************************************)
(* Process state                                                           *)
(*   config    CONFIG: NoConfig until init                                 *)
(*   interner  STRING_INTERNER: interned names in assignment order         *)
(*   cache     QUERY_CACHE: query id -> CachedQueryInfo                    *)
(*   th        per calling thread: position inside do_parse_query, locals  *)
(*             and the value last returned                                 *)
(*   ncalls    number of do_parse_query calls started                      *)
(*   analysis  for every query text callers submit, what parse_graphql     *)
(*             computes from the text and the installed config alone       *)
(*   procs     the calling threads                                         *)
(*   maxcalls  the number of calls after which callers stop                *)
(*   policy    QUERY_CACHE's bookkeeping beside its map: the capacity and  *)
(*             time to live it was built with, insertion times, recency    *)
(*             order, popularity counts and the operations not yet applied *)
(*   clock     the time in seconds                                         *)
(*   arenas    the ASTContext arenas created so far, in order, each with   *)
(*             its Arc strong count                                        *)
(***************************************************************************)
VARIABLES config, interner, cache, th, ncalls, analysis, procs, maxcalls, policy, clock,
          arenas

vars == <<config, interner, cache, th, ncalls, analysis, procs, maxcalls, policy, clock, arenas>>

Threads == 1..NumThreads

NoValue == [none |-> TRUE]

NoResult == [status |-> "none"]

IdleThread ==
    [pc |-> "idle", query |-> 0, pending |-> <<>>, info |-> NoValue,
     request |-> NoValue, hit |-> NoValue, result |-> NoResult,
     raced |-> {}, after |-> {}]

ErrorResult(msg) == [status |-> "error", err |-> msg]

OkResult(from, query_id, info, request, stored) ==
    [status |-> "ok", from |-> from, query_id |-> query_id,
     operation_kind |-> info.operation_kind, operation_name |-> info.operation_name,
     request |-> request, stored |-> stored]

\* ParsedQueryInfo as built at parser.rs 323-333 and converted by
\* From<ParsedQueryInfo> for CachedQueryInfo; request and by record the
\* request returned by the storing call and the thread that stored it.
CachedInfo(q, a, intr, request, t) ==
    [operation_kind |-> a.operation_kind,
     operation_name |-> a.operation_name,
     field_paths |-> SymPaths(intr, a.ext.field_paths),
     column_usage |-> SymColumns(intr, a.ext.column_usage),
     original_query |-> q,
     document_ptr |-> q,
     request |-> request,
     by |-> t]

(***************************************************************************)
(* QUERY_CACHE beside its map.  The cache is a moka::sync::Cache built     *)
(* with max_capacity and time_to_live and otherwise default: entries are   *)
(* stamped when written and never returned once their time to live has     *)
(* passed; reads and writes are logged and applied to the recency order    *)
(* and the popularity counts by run_pending_tasks, which admits a new key  *)
(* into a full cache only when it is more popular than the least recently  *)
(* used entry.                                                             *)
(*   created        the Lazy has been forced                               *)
(*   last_modified  key -> time of the insert that wrote the entry         *)
(*   deque          admitted keys, least recently used first               *)
(*   freq           key -> number of applied reads                         *)
(*   reads, writes  logged operations                                      *)
(*   used           keys in the order of their last get or insert          *)
(*   stored         key -> time of the last insert made by a caller        *)
(***************************************************************************)
NotCreated ==
    [created |-> FALSE, max_capacity |-> 0, time_to_live |-> 0,
     last_modified |-> <<>>, deque |-> <<>>, freq |-> <<>>,
     reads |-> <<>>, writes |-> <<>>, used |-> <<>>, stored |-> <<>>]

\* create_cache_from_config (cache.rs 10-30).
create_cache_from_config(cfg) ==
    [NotCreated EXCEPT
        !.created = TRUE,
        !.max_capacity = IF cfg = NoConfig THEN 1000 ELSE cfg.query_cache_max_size,
        !.time_to_live = IF cfg = NoConfig THEN 600 ELSE cfg.query_cache_ttl_seconds]

\* A cache that takes its settings from the configuration at every access.
QueryCache_reread(p, cfg) ==
    [p EXCEPT !.created = TRUE,
              !.max_capacity = IF cfg = NoConfig THEN 1000 ELSE cfg.query_cache_max_size,
              !.time_to_live = IF cfg = NoConfig THEN 600 ELSE cfg.query_cache_ttl_seconds]

\* Lazy::new(|| create_cache_from_config()): forced by the first access.
QueryCache(p, cfg) == IF p.created THEN p ELSE create_cache_from_config(cfg)

\* f with key mapped to value.
Put(f, key, value) == [k \in (DOMAIN f) \cup {key} |-> IF k = key THEN value ELSE f[k]]

\* f without key.
Drop(f, key) == [k \in (DOMAIN f) \ {key} |-> f[k]]

\* s without the occurrences of key.
Without(s, key) == SelectSeq(s, LAMBDA k : k # key)

\* s with key as its last element and nowhere else.
ToBack(s, key) == Append(Without(s, key), key)

Frequency(p, key) == IF key \in DOMAIN p.freq THEN p.freq[key] ELSE 0

\* time_to_live(Duration::from_secs(ttl)): an entry written at time w is
\* expired from w + ttl on.
Expired(p, key, now) ==
    key \in DOMAIN p.last_modified /\ p.last_modified[key] + p.time_to_live <= now

\* A get that leaves expiry to run_pending_tasks.
LiveEntry_unchecked(c, p, query_id, now) ==
    IF query_id \in DOMAIN c THEN c[query_id] ELSE NoValue

\* QUERY_CACHE.get(query_id): the entry when present and not expired.
LiveEntry(c, p, query_id, now) ==
    IF query_id \in DOMAIN c /\ ~Expired(p, query_id, now) THEN c[query_id] ELSE NoValue

\* The bookkeeping of QUERY_CACHE.get: the read is logged.
RecordRead(p, query_id, hit, now) ==
    [p EXCEPT !.reads = Append(@, [key |-> query_id, hit |-> hit]),
              !.used = ToBack(@, query_id)]

\* The bookkeeping of QUERY_CACHE.insert: the entry is stamped and the
\* write is logged.
RecordWrite(p, query_id, now) ==
    [p EXCEPT !.writes = Append(@, query_id),
              !.last_modified = Put(@, query_id, now),
              !.used = ToBack(@, query_id),
              !.stored = Put(@, query_id, now)]

\* One logged read: the key's popularity grows, and a hit makes the entry
\* the most recently used.
ApplyRead(p, op) ==
    [p EXCEPT !.freq = Put(@, op.key, Frequency(p, op.key) + 1),
              !.deque = IF op.hit /\ op.key \in Range(@) THEN ToBack(@, op.key) ELSE @]

RECURSIVE ApplyReads(_, _)
ApplyReads(p, i) ==
    IF i > Len(p.reads) THEN [p EXCEPT !.reads = <<>>]
    ELSE With(ApplyRead(p, p.reads[i]), LAMBDA n : ApplyReads(n, i + 1))

\* One logged write over m = [cache, policy].  A key written again later in
\* the log is left to that write.  An admitted key becomes the most recently
\* used.  A new key is admitted while there is room; into a full cache it is
\* admitted, and the least recently used entry evicted, only when it is more
\* popular than that entry; otherwise the new entry is removed.
ApplyWrite(m, i) ==
    LET p == m.policy
        key == p.writes[i]
        victim == Head(p.deque)
    IN IF key \notin DOMAIN m.cache \/ \E j \in (i + 1)..Len(p.writes) : p.writes[j] = key
       THEN m
       ELSE IF key \in Range(p.deque)
       THEN [m EXCEPT !.policy.deque = ToBack(@, key)]
       ELSE IF Len(p.deque) < p.max_capacity
       THEN [m EXCEPT !.policy.deque = Append(@, key)]
       ELSE IF p.deque # <<>> /\ Frequency(p, key) > Frequency(p, victim)
       THEN [cache |-> Drop(m.cache, victim),
             policy |-> [p EXCEPT !.deque = Append(Tail(@), key),
                                  !.last_modified = Drop(@, victim)]]
       ELSE [cache |-> Drop(m.cache, key),
             policy |-> [p EXCEPT !.last_modified = Drop(@, key)]]

RECURSIVE ApplyWrites(_, _)
ApplyWrites(m, i) ==
    IF i > Len(m.policy.writes) THEN [m EXCEPT !.policy.writes = <<>>]
    ELSE With(ApplyWrite(m, i), LAMBDA n : ApplyWrites(n, i + 1))

\* The expired entries are removed.
EvictExpired(m, now) ==
    LET dead == {k \in DOMAIN m.cache : Expired(m.policy, k, now)}
    IN [cache |-> [k \in (DOMAIN m.cache) \ dead |-> m.cache[k]],
        policy |-> [m.policy EXCEPT
                        !.deque = SelectSeq(@, LAMBDA k : k \notin dead),
                        !.last_modified = [k \in (DOMAIN @) \ dead |-> @[k]]]]

\* run_pending_tasks: logged reads, then logged writes, then expiry.
run_pending_tasks(c, p, now) ==
    With(ApplyReads(p, 1), LAMBDA read :
        With(ApplyWrites([cache |-> c, policy |-> read], 1), LAMBDA m : EvictExpired(m, now)))

\* QUERY_CACHE.get(query_id).map(|val| val.clone())
get_from_cache(c, query_id) == IF query_id \in DOMAIN c THEN c[query_id] ELSE NoValue

\* QUERY_CACHE.insert(query_id, cached_info)
add_to_cache(c, query_id, cached_info) ==
    [k \in (DOMAIN c) \cup {query_id} |-> IF k = query_id THEN cached_info ELSE c[k]]

\* add_to_cache ahead of the Err check.
CacheAfterParse_always(c, query_id, ok, cached_info) == add_to_cache(c, query_id, cached_info)

\* What do_parse_query does with the outcome of parse_graphql (nif.rs 67-74):
\* an Err returns before add_to_cache.
CacheAfterParse(c, query_id, ok, cached_info) ==
    IF ok THEN add_to_cache(c, query_id, cached_info) ELSE c

InitWith(T, P, M) ==
    /\ config = NoConfig
    /\ interner = <<>>
    /\ cache = <<>>
    /\ th = [t \in Threads |-> IdleThread]
    /\ ncalls = 0
    /\ analysis = [q \in T |-> Analyze(q, DefaultConfig)]
    /\ procs = P
    /\ maxcalls = M
    /\ policy = NotCreated
    /\ clock = 0
    /\ arenas = <<>>

Init == InitWith(ConcTexts, Threads, MaxCalls)

InitSeq == InitWith(AllTexts, {1}, MaxSeqCalls)

\* init(config): installs the configuration, once.
init ==
    /\ config = NoConfig
    /\ config' = DefaultConfig
    /\ UNCHANGED <<interner, cache, th, ncalls, analysis, procs, maxcalls, policy, clock, arenas>>

\* The threads other than t, with t removed from their race records.
Forget(t) == [u \in Threads |-> [th[u] EXCEPT !.raced = @ \ {t}, !.after = @ \ {t}]]

\* do_parse_query from its entry to the cache lookup (nif.rs 24-38) and, on a
\* miss, parse_graphql up to the extractor (parser.rs 93-163).
Call(t, q) ==
    /\ t \in procs
    /\ q \in DOMAIN analysis
    /\ th[t].pc \in {"idle", "done"}
    /\ ncalls < maxcalls
    /\ ncalls' = ncalls + 1
    /\ LET query_id == generate_query_id(q)
           cached == get_from_cache(cache, query_id)
           a == analysis[q]
           base == [IdleThread EXCEPT !.query = q]
           racers == {u \in Threads \ {t} : th[u].pc \in {"extract", "insert"} /\ th[u].query = q}
       IN IF config = NoConfig
          THEN th' = [Forget(t) EXCEPT ![t] =
                        [base EXCEPT !.pc = "done", !.result = ErrorResult("GraSQL not initialized")]]
          ELSE IF cached # NoValue
          THEN th' = [Forget(t) EXCEPT ![t] = [base EXCEPT !.pc = "hit", !.hit = cached]]
          ELSE IF ~a.ran
          THEN th' = [Forget(t) EXCEPT ![t] = [base EXCEPT !.pc = "done", !.result = ErrorResult(a.err)]]
          ELSE th' = [u \in Threads |->
                        IF u = t THEN [base EXCEPT !.pc = "extract", !.pending = a.ext.interned,
                                                   !.raced = racers]
                        ELSE IF u \in racers THEN [Forget(t)[u] EXCEPT !.raced = @ \cup {t}]
                        ELSE Forget(t)[u]]
    /\ UNCHANGED <<config, interner, cache, analysis, procs, maxcalls, policy, clock, arenas>>

\* One intern_str call of the running extractor.
Intern(t) ==
    /\ th[t].pc = "extract"
    /\ th[t].pending # <<>>
    /\ interner' = intern_str(interner, Head(th[t].pending))
    /\ th' = [th EXCEPT ![t].pending = Tail(@)]
    /\ UNCHANGED <<config, cache, ncalls, analysis, procs, maxcalls, policy, clock, arenas>>

\* extractor.extract returned Err: parse_graphql and do_parse_query return it.
ExtractFail(t) ==
    /\ th[t].pc = "extract"
    /\ th[t].pending = <<>>
    /\ LET a == analysis[th[t].query]
       IN /\ a.err # ""
          /\ th' = [th EXCEPT ![t].pc = "done", ![t].result = ErrorResult(a.err)]
          /\ cache' = CacheAfterParse(cache, generate_query_id(th[t].query), FALSE, NoValue)
    /\ UNCHANGED <<config, interner, ncalls, analysis, procs, maxcalls, policy, clock, arenas>>

\* parse_graphql from get_all_strings to its return (parser.rs 169-346).
Snapshot(t) ==
    /\ th[t].pc = "extract"
    /\ th[t].pending = <<>>
    /\ LET q == th[t].query
           a == analysis[q]
       IN /\ a.err = ""
          /\ \E request \in MissRequests(generate_query_id(q), SymPaths(interner, a.ext.field_paths),
                                         SymColumns(interner, a.ext.column_usage),
                                         Parse(q).document, interner, config) :
                IF Corrupted(request)
                THEN th' = [th EXCEPT ![t].pc = "done", ![t].result = ErrorResult("Symbol not found in mapping")]
                ELSE th' = [th EXCEPT ![t].pc = "insert",
                                      ![t].info = CachedInfo(q, a, interner, request, t),
                                      ![t].request = request]
    /\ UNCHANGED <<config, interner, cache, ncalls, analysis, procs, maxcalls, policy, clock, arenas>>

\* add_to_cache and the Ok return of the miss path (nif.rs 73-94).
Insert(t) ==
    /\ th[t].pc = "insert"
    /\ LET query_id == generate_query_id(th[t].query)
       IN /\ cache' = CacheAfterParse(cache, query_id, TRUE, th[t].info)
          /\ th' = [th EXCEPT ![t].pc = "done",
                              ![t].after = {u \in th[t].raced : th[u].pc = "done"},
                              ![t].result = OkResult("miss", query_id, th[t].info, th[t].request, th[t].request),
                              ![t].info = NoValue,
                              ![t].request = NoValue]
    /\ UNCHANGED <<config, interner, ncalls, analysis, procs, maxcalls, policy, clock, arenas>>

\* The cache-hit branch of do_parse_query (nif.rs 38-65).
Hit(t) ==
    /\ th[t].pc = "hit"
    /\ LET query_id == generate_query_id(th[t].query)
           cached == th[t].hit
       IN \E request \in CachedRequests(query_id, cached, interner, config) :
            IF Corrupted(request)
            THEN th' = [th EXCEPT ![t].pc = "done", ![t].hit = NoValue,
                                  ![t].result = ErrorResult("Symbol not found in mapping")]
            ELSE th' = [th EXCEPT ![t].pc = "done", ![t].hit = NoValue,
                                  ![t].result = OkResult("hit", query_id, cached, request, cached.request)]
    /\ UNCHANGED <<config, interner, cache, ncalls, analysis, procs, maxcalls, policy, clock, arenas>>

\* The cache drops an entry: capacity eviction or TTL expiry (cache.rs 26-29).
Evict(query_id) ==
    /\ query_id \in DOMAIN cache
    /\ cache' = [k \in (DOMAIN cache) \ {query_id} |-> cache[k]]
    /\ UNCHANGED <<config, interner, th, ncalls, analysis, procs, maxcalls, policy, clock, arenas>>

Next ==
    \/ init
    \/ \E t \in Threads, q \in AllTexts : Call(t, q)
    \/ \E t \in Threads : Intern(t)
    \/ \E t \in Threads : ExtractFail(t)
    \/ \E t \in Threads : Snapshot(t)
    \/ \E t \in Threads : Insert(t)
    \/ \E t \in Threads : Hit(t)
    \/ \E id \in AllTexts : Evict(id)

Spec == Init /\ [][Next]_vars

SpecSeq == InitSeq /\ [][Next]_vars

(***************************************************************************)
(* do_parse_query on the two texts of equal fingerprint.                   *)
(***************************************************************************)
InitCollide == InitWith(CollisionTexts, Threads, MaxCalls)

NextCollide ==
    \/ init
    \/ \E t \in Threads, q \in CollisionTexts : Call(t, q)
    \/ \E t \in Threads : Intern(t)
    \/ \E t \in Threads : Snapshot(t)
    \/ \E t \in Threads : Insert(t)
    \/ \E t \in Threads : Hit(t)

SpecCollide == InitCollide /\ [][NextCollide]_vars

(***************************************************************************)
(* parse_graphql called directly, as the parser tests do: one call runs    *)
(* from Document::parse to the returned (ParsedQueryInfo, request) and     *)
(* never touches the query cache.                                          *)
(***************************************************************************)
RECURSIVE InternAll(_, _, _)
\* The intern_str calls of one extraction, in order.
InternAll(intr, names, i) ==
    IF i > Len(names) THEN intr
    ELSE InternAll(intern_str(intr, names[i]), names, i + 1)

ParseGraphql(t, q) ==
    /\ t \in procs
    /\ q \in DOMAIN analysis
    /\ th[t].pc \in {"idle", "done"}
    /\ ncalls < maxcalls
    /\ ncalls' = ncalls + 1
    /\ \E a \in {IF config = NoConfig THEN Analyze(q, NoConfig) ELSE analysis[q]} :
        LET base == [IdleThread EXCEPT !.query = q, !.pc = "done"]
        IN IF ~a.ran
           THEN /\ th' = [th EXCEPT ![t] = [base EXCEPT !.result = ErrorResult(a.err)]]
                /\ interner' = interner
           ELSE \E intr \in {InternAll(interner, a.ext.interned, 1)} :
                /\ interner' = intr
                /\ IF a.err # ""
                   THEN th' = [th EXCEPT ![t] = [base EXCEPT !.result = ErrorResult(a.err)]]
                   ELSE \E request \in MissRequests(generate_query_id(q),
                                                     SymPaths(intr, a.ext.field_paths),
                                                     SymColumns(intr, a.ext.column_usage),
                                                     Parse(q).document, intr, config) :
                            th' = [th EXCEPT ![t] =
                                    [base EXCEPT !.result =
                                        OkResult("parse", generate_query_id(q), a, request, request)]]
    /\ UNCHANGED <<config, cache, analysis, procs, maxcalls, policy, clock, arenas>>

InitParse == InitWith(OperationTexts, {1}, MaxParseCalls)

NextParse ==
    \/ init
    \/ \E t \in Threads, q \in OperationTexts : ParseGraphql(t, q)

SpecParse == InitParse /\ [][NextParse]_vars

(***************************************************************************)
(* generate_query_id called on the sample texts                            *)
(***************************************************************************)
GenerateQueryId(t, query) ==
    /\ t \in procs
    /\ th' = [th EXCEPT ![t] = [IdleThread EXCEPT !.pc = "done",
                                    !.result = [status |-> "id", text |-> query,
                                                hash |-> xxh3_64(query),
                                                query_id |-> QueryIdOf(query)]]]
    /\ UNCHANGED <<config, interner, cache, ncalls, analysis, procs, maxcalls, policy, clock, arenas>>

InitId == InitWith({}, Threads, 0)

NextId == \E t \in Threads, query \in SampleQueries : GenerateQueryId(t, query)

SpecId == InitId /\ [][NextId]_vars

(***************************************************************************)
(* do_parse_query against the cache policy: one caller, each call run from *)
(* its entry to its return, with time passing and the cache's pending      *)
(* tasks run between calls.                                                *)
(***************************************************************************)
CacheTexts == {6, 16, 17}

\* The configuration installed in this specification: the default prefixes,
\* a cache of two entries that live two seconds.
CacheConfig ==
    [insert_prefix |-> DefaultConfig.insert_prefix,
     update_prefix |-> DefaultConfig.update_prefix,
     delete_prefix |-> DefaultConfig.delete_prefix,
     query_cache_max_size |-> 2,
     query_cache_ttl_seconds |-> 2]

\* init(config) with the cache settings of the configuration.
init_cache_config ==
    /\ config = NoConfig
    /\ config' = CacheConfig
    /\ UNCHANGED <<interner, cache, th, ncalls, analysis, procs, maxcalls, policy, clock, arenas>>

\* The value do_parse_query returns, with the time of the call and the time
\* at which a caller last stored the text before it (-1: never).
Timed(result, p, query_id, now) ==
    result @@ [at |-> now,
               prior |-> IF query_id \in DOMAIN p.stored THEN p.stored[query_id] ELSE -1]

\* do_parse_query (nif.rs 24-95).
ParseQuery(t, q) ==
    /\ t \in procs
    /\ q \in DOMAIN analysis
    /\ th[t].pc \in {"idle", "done"}
    /\ ncalls < maxcalls
    /\ ncalls' = ncalls + 1
    /\ LET query_id == generate_query_id(q)
           base == [IdleThread EXCEPT !.query = q, !.pc = "done"]
           created == QueryCache(policy, config)
           cached == LiveEntry(cache, created, query_id, clock)
           read == RecordRead(created, query_id, cached # NoValue, clock)
           a == analysis[q]
       IN IF config = NoConfig
          THEN /\ th' = [th EXCEPT ![t] = [base EXCEPT !.result = ErrorResult("GraSQL not initialized")]]
               /\ UNCHANGED <<interner, cache, policy>>
          ELSE IF cached # NoValue
          THEN /\ \E request \in CachedRequests(query_id, cached, interner, config) :
                    th' = [th EXCEPT ![t] = [base EXCEPT
                            !.result = IF Corrupted(request)
                                       THEN ErrorResult("Symbol not found in mapping")
                                       ELSE Timed(OkResult("hit", query_id, cached, request, cached.request),
                                                  policy, query_id, clock)]]
               /\ policy' = read
               /\ UNCHANGED <<interner, cache>>
          ELSE IF ~a.ran
          THEN /\ th' = [th EXCEPT ![t] = [base EXCEPT !.result = ErrorResult(a.err)]]
               /\ policy' = read
               /\ UNCHANGED <<interner, cache>>
          ELSE \E intr \in {InternAll(interner, a.ext.interned, 1)} :
               /\ interner' = intr
               /\ IF a.err # ""
                  THEN /\ th' = [th EXCEPT ![t] = [base EXCEPT !.result = ErrorResult(a.err)]]
                       /\ policy' = read
                       /\ cache' = CacheAfterParse(cache, query_id, FALSE, NoValue)
                  ELSE \E request \in MissRequests(query_id, SymPaths(intr, a.ext.field_paths),
                                                   SymColumns(intr, a.ext.column_usage),
                                                   Parse(q).document, intr, config) :
                        IF Corrupted(request)
                        THEN /\ th' = [th EXCEPT ![t] = [base EXCEPT
                                        !.result = ErrorResult("Symbol not found in mapping")]]
                             /\ policy' = read
                             /\ cache' = cache
                        ELSE /\ th' = [th EXCEPT ![t] = [base EXCEPT
                                        !.result = Timed(OkResult("miss", query_id, a, request, request),
                                                         policy, query_id, clock)]]
                             /\ policy' = RecordWrite(read, query_id, clock)
                             /\ cache' = CacheAfterParse(cache, query_id, TRUE,
                                                         CachedInfo(q, a, intr, request, t))
    /\ UNCHANGED <<config, analysis, procs, maxcalls, clock, arenas>>

\* A second passes.
Tick ==
    /\ clock < MaxTime
    /\ clock' = clock + 1
    /\ UNCHANGED <<config, interner, cache, th, ncalls, analysis, procs, maxcalls, policy, arenas>>

\* The cache runs its pending tasks.
RunPendingTasks ==
    /\ policy.created
    /\ \E m \in {run_pending_tasks(cache, policy, clock)} :
        /\ cache' = m.cache
        /\ policy' = m.policy
    /\ <<cache, policy>>' # <<cache, policy>>
    /\ UNCHANGED <<config, interner, th, ncalls, analysis, procs, maxcalls, clock, arenas>>

InitCache == InitWith(CacheTexts, {1}, MaxCacheCalls)

NextCache ==
    \/ init_cache_config
    \/ \E t \in Threads, q \in CacheTexts : ParseQuery(t, q)
    \/ Tick
    \/ RunPendingTasks

SpecCache == InitCache /\ [][NextCache]_vars

(***************************************************************************)
(* CachedQueryInfo records and their arenas.  A record is reduced to the   *)
(* three fields document() reads:                                          *)
(*   ast_context     the arena the record holds through its Arc, or 0      *)
(*   document_ptr    the arena its stored borrow points into, or 0         *)
(*   original_query  the retained text, or 0                               *)
(* An arena is [strong, released, written, query]: the Arc's strong count, *)
(* whether the arena has been freed, whether anything was allocated in it  *)
(* after the parse that filled it, and the text parsed into it.            *)
(* Callers look a text up, parse and insert on a miss, call document() on  *)
(* the clone a hit gives them and drop the clone; records are also built   *)
(* field by field and inserted, as the tests do; the cache drops entries.  *)
(***************************************************************************)
ArenaTexts == {8, 16}

\* ASTContext::new, Document::parse and Arc::new (parser.rs 95-104, 320).
NewArena(ar, q) ==
    Append(ar, [strong |-> 1, released |-> FALSE, written |-> FALSE, query |-> q])

\* Arc::clone of the handle id (0: the Option is None).
ArcClone(ar, id) == IF id = 0 THEN ar ELSE [ar EXCEPT ![id].strong = @ + 1]

\* Drop of one handle: the arena is freed with the last one.
ArcDrop(ar, id) ==
    IF id = 0 THEN ar
    ELSE [ar EXCEPT ![id].strong = @ - 1, ![id].released = (ar[id].strong = 1)]

\* A copy of the record that shares the arena without counting itself.
CloneRecord_uncounted(ar, info) == ar

\* #[derive(Clone)] on CachedQueryInfo (types.rs 181): the Arc is cloned, the
\* raw pointer and the text copied.
CloneRecord(ar, info) == ArcClone(ar, info.ast_context)

\* Drop of a record or of NoValue.
DropRecord(ar, info) == IF info = NoValue THEN ar ELSE ArcDrop(ar, info.ast_context)

\* Re-parsing whenever the text is retained, in a new arena if need be.
record_document_always(info) ==
    IF info.ast_context # 0 /\ info.document_ptr # 0
    THEN [outcome |-> "borrow", arena |-> info.document_ptr]
    ELSE IF info.original_query # 0 /\ Parse(info.original_query).ok
    THEN [outcome |-> "reparsed", arena |-> info.ast_context]
    ELSE [outcome |-> "none", arena |-> 0]

\* CachedQueryInfo::document (types.rs 281-322): what it returns and the
\* arena it reads or parses into.
record_document(info) ==
    IF info.ast_context # 0 /\ info.document_ptr # 0
    THEN [outcome |-> "borrow", arena |-> info.document_ptr]
    ELSE IF info.ast_context # 0 /\ info.document_ptr = 0 /\ info.original_query # 0
    THEN IF Parse(info.original_query).ok
         THEN [outcome |-> "reparsed", arena |-> info.ast_context]
         ELSE [outcome |-> "none", arena |-> info.ast_context]
    ELSE [outcome |-> "none", arena |-> 0]

\* The arenas after document(): Document::parse(ctx, ..) of the fallback
\* allocates in the record's arena, also when it ends in Err.
AfterDocument(ar, info) ==
    IF info.ast_context # 0 /\ info.document_ptr = 0 /\ info.original_query # 0
    THEN [ar EXCEPT ![info.ast_context].written = TRUE]
    ELSE ar

\* The record parse_graphql builds in arena id (parser.rs 323-333).
ParsedRecord(id, q) == [ast_context |-> id, document_ptr |-> id, original_query |-> q]

\* The records a caller can build from a parse into arena id by leaving
\* fields out.
RawRecords(id, q) ==
    {[ast_context |-> c, document_ptr |-> d, original_query |-> o] :
        c \in {0, id}, d \in {0, id}, o \in {0, q}}

\* get_from_cache at the head of do_parse_query (nif.rs 35-38): a hit hands
\* the caller a clone of the record.
GetClone(t, q) ==
    /\ t \in procs
    /\ th[t].pc = "idle"
    /\ LET query_id == generate_query_id(q)
       IN IF query_id \in DOMAIN cache
          THEN /\ th' = [th EXCEPT ![t].pc = "hit", ![t].query = q, ![t].hit = cache[query_id],
                                   ![t].result = NoResult]
               /\ arenas' = CloneRecord(arenas, cache[query_id])
          ELSE /\ th' = [th EXCEPT ![t].pc = "parse", ![t].query = q, ![t].result = NoResult]
               /\ arenas' = arenas
    /\ UNCHANGED <<config, interner, cache, ncalls, analysis, procs, maxcalls, policy, clock>>

\* An insert of info under query_id: the entry it replaces is dropped.
Replace(ar, c, query_id, info) ==
    DropRecord(CloneRecord(ar, info), get_from_cache(c, query_id))

\* The miss path of do_parse_query (nif.rs 67-94): parse_graphql fills a new
\* arena, a clone of the record goes into the cache, and the record itself is
\* dropped at the return.  A text that fails to parse leaves nothing behind.
ParseInsert(t) ==
    /\ th[t].pc = "parse"
    /\ Len(arenas) < MaxArenas
    /\ LET q == th[t].query
           id == Len(arenas) + 1
           info == ParsedRecord(id, q)
       IN IF Parse(q).ok
          THEN /\ cache' = add_to_cache(cache, generate_query_id(q), info)
               /\ arenas' = DropRecord(Replace(NewArena(arenas, q), cache, generate_query_id(q), info), info)
          ELSE /\ cache' = cache
               /\ arenas' = ArcDrop(NewArena(arenas, q), id)
    /\ th' = [th EXCEPT ![t].pc = "idle"]
    /\ UNCHANGED <<config, interner, ncalls, analysis, procs, maxcalls, policy, clock>>

\* A record built field by field from a parse and inserted with
\* insert_raw_for_test (cache.rs 114-117), as test_fallback_reparse_behavior
\* does; the parsed record is dropped afterwards.
InsertRaw(t, q) ==
    /\ t \in procs
    /\ th[t].pc = "idle"
    /\ Len(arenas) < MaxArenas
    /\ Parse(q).ok
    /\ \E info \in RawRecords(Len(arenas) + 1, q) :
        /\ cache' = add_to_cache(cache, generate_query_id(q), info)
        /\ arenas' = ArcDrop(Replace(NewArena(arenas, q), cache, generate_query_id(q), info),
                             Len(arenas) + 1)
    /\ UNCHANGED <<config, interner, th, ncalls, analysis, procs, maxcalls, policy, clock>>

\* document() on the clone the caller holds (nif.rs 156).
Document(t) ==
    /\ th[t].pc = "hit"
    /\ LET info == th[t].hit
           doc == record_document(info)
       IN /\ th' = [th EXCEPT ![t].pc = "held",
                              ![t].result = [status |-> "document", outcome |-> doc.outcome,
                                             arena |-> doc.arena,
                                             live |-> doc.arena # 0 /\ ~arenas[doc.arena].released]]
          /\ arenas' = AfterDocument(arenas, info)
    /\ UNCHANGED <<config, interner, cache, ncalls, analysis, procs, maxcalls, policy, clock>>

\* The caller drops its clone.
DropClone(t) ==
    /\ th[t].pc = "held"
    /\ arenas' = DropRecord(arenas, th[t].hit)
    /\ th' = [th EXCEPT ![t].pc = "idle", ![t].hit = NoValue]
    /\ UNCHANGED <<config, interner, cache, ncalls, analysis, procs, maxcalls, policy, clock>>

\* The cache drops an entry: eviction or expiry.
EvictEntry(query_id) ==
    /\ query_id \in DOMAIN cache
    /\ cache' = Drop(cache, query_id)
    /\ arenas' = DropRecord(arenas, cache[query_id])
    /\ UNCHANGED <<config, interner, th, ncalls, analysis, procs, maxcalls, policy, clock>>

InitArena == InitWith({}, Threads, 0)

NextArena ==
    \/ \E t \in Threads, q \in ArenaTexts : GetClone(t, q)
    \/ \E t \in Threads : ParseInsert(t)
    \/ \E t \in Threads, q \in ArenaTexts : InsertRaw(t, q)
    \/ \E t \in Threads : Document(t)
    \/ \E t \in Threads : DropClone(t)
    \/ \E q \in ArenaTexts : EvictEntry(generate_query_id(q))

SpecArena == InitArena /\ [][NextArena]_vars

(***************************************************************************)
(* FieldPathExtractor::extract called directly on a parsed document, as    *)
(* the extraction and mutation tests do.  One step processes one root      *)
(* selection in one of the three passes over an operation: the visitor,    *)
(* extract_filter_paths, extract_columns_from_selection_sets.              *)
(***************************************************************************)
\* Values of an ordinary member of a where argument:
\*   1  "x"                  2  null               3  $v
\*   4  ["x"]                5  [{ x: { _eq: 1 } }]
\*   6  { _eq: 1 }           7  { avatar: { _eq: 1 } }
\*   8  {}                   9  { _eq: 1, avatar: "x" }
FilterValues ==
    << Scalar, NullV, Var, Lst(<<Scalar>>), Lst(<<Obj(<<Member("x", IdEq)>>)>>),
       IdEq, Obj(<<Member("avatar", IdEq)>>), Obj(<<>>),
       Obj(<<Member("_eq", Scalar), Member("avatar", Scalar)>>) >>

\* Where arguments that hold the member m: v
\*   1  { m: v }             2  { profile: { m: v } }
\*   3  { _and: [{ m: v }] } 4  { _or: { m: v } }
FilterShapes(v) ==
    << Obj(<<Member("m", v)>>),
       Obj(<<Member("profile", Obj(<<Member("m", v)>>))>>),
       Obj(<<Member("_and", Lst(<<Obj(<<Member("m", v)>>)>>))>>),
       Obj(<<Member("_or", Obj(<<Member("m", v)>>))>>) >>

IdSelection == <<Field("id", <<>>, <<>>)>>

\* { users(where: w) { id } } for k = 1 and { users(where: w) } for k = 2
FilterDocument(w, k) ==
    <<Operation("Query", "", <<Field("users", <<Member("where", w)>>,
                                     IF k = 1 THEN IdSelection ELSE <<>>)>>)>>

FilterDocuments ==
    [n \in 1..(Len(FilterValues) * 4 * 2) |->
        FilterDocument(FilterShapes(FilterValues[((n - 1) \div 8) + 1])[(((n - 1) \div 2) % 4) + 1],
                       ((n - 1) % 2) + 1)]

NameEmail == Obj(<<Member("name", Scalar), Member("email", Scalar)>>)

\* Values of objects, object and _set:
\*   1  { name: "a", email: "b" }     2  [{ name: "a", email: "b" }, { phone: "c" }]
\*   3  [[{ name: "a", email: "b" }]] 4  $v
\*   5  [$v]                          6  5
\*   7  [5, { name: "a", email: "b" }]  8  []
MutationValues ==
    << NameEmail, Lst(<<NameEmail, Obj(<<Member("phone", Scalar)>>)>>), Lst(<<Lst(<<NameEmail>>)>>),
       Var, Lst(<<Var>>), Scalar, Lst(<<Scalar, NameEmail>>), Lst(<<>>) >>

MutationArguments == <<"objects", "object", "_set">>

MutationFields == <<"insert_users", "update_users">>

\* mutation { f(a: v) { returning { id } } } for k = 1 and mutation { f(a: v) }
\* for k = 2
MutationDocument(f, a, v, k) ==
    <<Operation("Mutation", "", <<Field(f, <<Member(a, v)>>,
                                        IF k = 1 THEN <<ReturningId>> ELSE <<>>)>>)>>

MutationDocuments ==
    [n \in 1..(Len(MutationValues) * 3 * 2 * 2) |->
        MutationDocument(MutationFields[(((n - 1) \div 2) % 2) + 1],
                         MutationArguments[(((n - 1) \div 4) % 3) + 1],
                         MutationValues[((n - 1) \div 12) + 1],
                         ((n - 1) % 2) + 1)]

\* 1  { users { aggregate { count max { age } } name } }
\* 2  mutation { insert_users(objects: [{ name: "a" }]) { returning { id posts { title } } } }
\* 3  { users { nodes { id } } }
\* 4  { users { returning } }
\* 5  { users { posts { nodes { title author { name } } } } }
\* 6  { users { id } posts(where: { title: { _eq: 1 } }) { title } }
\* 7  query A { users { id } }  query B { posts { title } }
\* 8  fragment F on User { id }
\* 9  { users { posts(where: { id: { _eq: 1 } }) } }
\* 10 { ...F users { id } }
\* 11 mutation { upsert_users(objects: $v) }
\* 12 { users { posts { title } id } }
ShapeDocuments ==
    << <<Operation("Query", "", <<Field("users", <<>>,
            <<Field("aggregate", <<>>, <<Field("count", <<>>, <<>>),
                                         Field("max", <<>>, <<Field("age", <<>>, <<>>)>>)>>),
              Field("name", <<>>, <<>>)>>)>>)>>,
       <<Operation("Mutation", "", <<Field("insert_users",
            <<Member("objects", Lst(<<Obj(<<Member("name", Scalar)>>)>>))>>,
            <<Field("returning", <<>>, <<Field("id", <<>>, <<>>),
                                         Field("posts", <<>>, <<Field("title", <<>>, <<>>)>>)>>)>>)>>)>>,
       <<Operation("Query", "", <<Field("users", <<>>, <<Field("nodes", <<>>, IdSelection)>>)>>)>>,
       <<Operation("Query", "", <<Field("users", <<>>, <<Field("returning", <<>>, <<>>)>>)>>)>>,
       <<Operation("Query", "", <<Field("users", <<>>, <<Field("posts", <<>>,
            <<Field("nodes", <<>>, <<Field("title", <<>>, <<>>),
                                     Field("author", <<>>, <<Field("name", <<>>, <<>>)>>)>>)>>)>>)>>)>>,
       <<Operation("Query", "", <<Field("users", <<>>, IdSelection),
                                  Field("posts", <<Member("where", Obj(<<Member("title", IdEq)>>))>>,
                                        <<Field("title", <<>>, <<>>)>>)>>)>>,
       <<Operation("Query", "A", <<Field("users", <<>>, IdSelection)>>),
         Operation("Query", "B", <<Field("posts", <<>>, <<Field("title", <<>>, <<>>)>>)>>)>>,
       <<FragmentDef>>,
       <<Operation("Query", "", <<Field("users", <<>>,
            <<Field("posts", <<Member("where", Obj(<<Member("id", IdEq)>>))>>, <<>>)>>)>>)>>,
       <<Operation("Query", "", <<FragmentSpread, Field("users", <<>>, IdSelection)>>)>>,
       <<Operation("Mutation", "", <<Field("upsert_users", <<Member("objects", Var)>>, <<>>)>>)>>,
       <<Operation("Query", "", <<Field("users", <<>>,
            <<Field("posts", <<>>, <<Field("title", <<>>, <<>>)>>), Field("id", <<>>, <<>>)>>)>>)>> >>

\* The documents the extractor is run on.
ExtractionDocuments == FilterDocuments \o MutationDocuments \o ShapeDocuments

\* The position of the first operation definition from i on, or past the end.
NextOperation(document, i) ==
    IF \E j \in i..Len(document) : document[j].t = "Operation"
    THEN CHOOSE j \in i..Len(document) :
            /\ document[j].t = "Operation"
            /\ \A k \in i..(j - 1) : document[k].t # "Operation"
    ELSE Len(document) + 1

\* A running extraction: extractor ext is about to process root selection
\* root of operation def of document doc in pass pass.
Extraction(doc, def, pass, root, ext) ==
    [status |-> "extracting", doc |-> doc, def |-> def, pass |-> pass, root |-> root, ext |-> ext]

\* The position after root selection r.root of pass r.pass.
Advance(r, ext) ==
    LET document == ExtractionDocuments[r.doc]
    IN IF r.root < Len(document[r.def].selections)
       THEN Extraction(r.doc, r.def, r.pass, r.root + 1, ext)
       ELSE IF r.pass = "visit" THEN Extraction(r.doc, r.def, "filter", 1, ext)
       ELSE IF r.pass = "filter" THEN Extraction(r.doc, r.def, "columns", 1, ext)
       ELSE Extraction(r.doc, NextOperation(document, r.def + 1), "visit", 1, ext)

\* The root selection a running extraction is about to process.
RootSelection(r) == ExtractionDocuments[r.doc][r.def].selections[r.root]

Extracting(t, pass) ==
    /\ th[t].pc = "extracting"
    /\ th[t].result.def <= Len(ExtractionDocuments[th[t].result.doc])
    /\ th[t].result.pass = pass

\* The ? of extract: an Err ends the extraction where it stands.
Proceed(r, ext) ==
    IF ext.err # ""
    THEN [status |-> "error", err |-> ext.err, doc |-> r.doc, ext |-> ext]
    ELSE Advance(r, ext)

\* FieldPathExtractor::new() and the entry of extract.
NewExtraction(t, d) ==
    /\ t \in procs
    /\ th[t].pc \in {"idle", "done"}
    /\ th' = [th EXCEPT ![t] =
                [IdleThread EXCEPT !.pc = "extracting",
                    !.result = Extraction(d, NextOperation(ExtractionDocuments[d], 1), "visit", 1,
                                          NewExtractor)]]
    /\ UNCHANGED <<config, interner, cache, ncalls, analysis, procs, maxcalls, policy, clock, arenas>>

\* operation.selection_set.visit: one root selection.
VisitRoot(t) ==
    /\ Extracting(t, "visit")
    /\ LET r == th[t].result
           sel == RootSelection(r)
       IN th' = [th EXCEPT ![t].result =
                    Advance(r, IF IsField(sel) THEN VisitField(r.ext, sel) ELSE r.ext)]
    /\ UNCHANGED <<config, interner, cache, ncalls, analysis, procs, maxcalls, policy, clock, arenas>>

\* extract_filter_paths: one turn of its loop.
FilterRoot(t) ==
    /\ Extracting(t, "filter")
    /\ LET r == th[t].result
           sel == RootSelection(r)
           ext == IF IsField(sel)
                  THEN process_field_arguments([r.ext EXCEPT !.current_path = <<>>], sel, config)
                  ELSE r.ext
       IN th' = [th EXCEPT ![t].result = Proceed(r, ext),
                           ![t].pc = IF ext.err # "" THEN "done" ELSE "extracting"]
    /\ UNCHANGED <<config, interner, cache, ncalls, analysis, procs, maxcalls, policy, clock, arenas>>

\* extract_columns_from_selection_sets: one turn of its loop.
ColumnRoot(t) ==
    /\ Extracting(t, "columns")
    /\ LET r == th[t].result
           sel == RootSelection(r)
           ext == IF IsField(sel)
                  THEN process_field_and_columns([r.ext EXCEPT !.current_path = <<>>], sel)
                  ELSE r.ext
       IN th' = [th EXCEPT ![t].result = Proceed(r, ext),
                           ![t].pc = IF ext.err # "" THEN "done" ELSE "extracting"]
    /\ UNCHANGED <<config, interner, cache, ncalls, analysis, procs, maxcalls, policy, clock, arenas>>

\* The end of extract: no operation found, or the two collections.
Return(t) ==
    /\ th[t].pc = "extracting"
    /\ LET r == th[t].result
           document == ExtractionDocuments[r.doc]
       IN /\ r.def > Len(document)
          /\ th' = [th EXCEPT ![t].pc = "done",
                       ![t].result =
                          IF \A i \in 1..Len(document) : document[i].t # "Operation"
                          THEN [status |-> "error", err |-> "No operation found in document",
                                doc |-> r.doc, ext |-> r.ext]
                          ELSE [status |-> "extracted", doc |-> r.doc, ext |-> r.ext,
                                field_paths |-> r.ext.field_paths,
                                column_usage |-> r.ext.column_usage]]
    /\ UNCHANGED <<config, interner, cache, ncalls, analysis, procs, maxcalls, policy, clock, arenas>>

InitExtract == InitWith({}, {1}, 0)

NextExtract ==
    \/ init
    \/ \E t \in Threads, d \in 1..Len(ExtractionDocuments) : NewExtraction(t, d)
    \/ \E t \in Threads : VisitRoot(t)
    \/ \E t \in Threads : FilterRoot(t)
    \/ \E t \in Threads : ColumnRoot(t)
    \/ \E t \in Threads : Return(t)

SpecExtract == InitExtract /\ [][NextExtract]_vars

(***************************************************************************)
(* The cache's settings.  QUERY_CACHE is built by the first call that      *)
(* touches it: get_from_cache and add_to_cache called directly, as the     *)
(* cache tests do, or do_parse_query.  The configuration may be installed  *)
(* before or after that call, and installed anew.                          *)
(***************************************************************************)
\* A second configuration: a cache of one entry that lives one second.
SmallCacheConfig ==
    [CacheConfig EXCEPT !.query_cache_max_size = 1, !.query_cache_ttl_seconds = 1]

\* init(config) for either configuration, also over an installed one.
install_config ==
    /\ \E cfg \in {CacheConfig, SmallCacheConfig} :
        /\ cfg # config
        /\ config' = cfg
    /\ UNCHANGED <<interner, cache, th, ncalls, analysis, procs, maxcalls, policy, clock, arenas>>

\* get_from_cache(&generate_query_id(q)) called directly.
GetFromCache(t, q) ==
    /\ t \in procs
    /\ q \in DOMAIN analysis
    /\ ncalls < maxcalls
    /\ ncalls' = ncalls + 1
    /\ LET query_id == generate_query_id(q)
           created == QueryCache(policy, config)
           cached == LiveEntry(cache, created, query_id, clock)
       IN /\ policy' = RecordRead(created, query_id, cached # NoValue, clock)
          /\ th' = [th EXCEPT ![t] = [IdleThread EXCEPT !.query = q, !.pc = "done",
                                        !.result = [status |-> "got", value |-> cached]]]
    /\ UNCHANGED <<config, interner, cache, analysis, procs, maxcalls, clock, arenas>>

\* parse_graphql(q) and add_to_cache(&generate_query_id(q), info) called
\* directly; the parse needs the configuration.
AddToCache(t, q) ==
    /\ t \in procs
    /\ q \in DOMAIN analysis
    /\ config # NoConfig
    /\ analysis[q].ran /\ analysis[q].err = ""
    /\ ncalls < maxcalls
    /\ ncalls' = ncalls + 1
    /\ \E intr \in {InternAll(interner, analysis[q].ext.interned, 1)} :
        /\ interner' = intr
        /\ cache' = add_to_cache(cache, generate_query_id(q),
                                 CachedInfo(q, analysis[q], intr, NoValue, t))
    /\ policy' = RecordWrite(QueryCache(policy, config), generate_query_id(q), clock)
    /\ th' = [th EXCEPT ![t] = [IdleThread EXCEPT !.query = q, !.pc = "done",
                                  !.result = [status |-> "added"]]]
    /\ UNCHANGED <<config, analysis, procs, maxcalls, clock, arenas>>

InitLazy == InitWith({6, 16}, {1}, MaxCacheCalls)

NextLazy ==
    \/ install_config
    \/ \E t \in Threads, q \in {6, 16} : GetFromCache(t, q)
    \/ \E t \in Threads, q \in {6, 16} : AddToCache(t, q)
    \/ \E t \in Threads, q \in {6, 16} : ParseQuery(t, q)

SpecLazy == InitLazy /\ [][NextLazy]_vars

(***************************************************************************)
(* Reading a resolution request                                            *)
(***************************************************************************)
\* Calls that have returned Ok.
Returned(t) == th[t].pc = "done" /\ th[t].result.status = "ok"

\* Length and string indices of block p (p counted from 1).
BlockLen(r, p) == r.paths[r.path_dir[p] + 1]

BlockIdx(r, p) == [k \in 1..BlockLen(r, p) |-> r.paths[r.path_dir[p] + 1 + k]]

\* path_dir addresses consecutive blocks that tile paths exactly.
Tiled(r) ==
    /\ Len(r.path_dir) = Len(r.path_types)
    /\ Len(r.path_dir) = 0 => Len(r.paths) = 0
    /\ Len(r.path_dir) > 0 => r.path_dir[1] = 0
    /\ \A p \in 1..Len(r.path_dir) :
        /\ r.path_dir[p] + 1 <= Len(r.paths)
        /\ r.path_dir[p] + 1 + BlockLen(r, p) <= Len(r.paths)
        /\ r.path_dir[p] + 1 + BlockLen(r, p) =
                (IF p < Len(r.path_dir) THEN r.path_dir[p + 1] ELSE Len(r.paths))

\* Block p as the path of field names it denotes.
BlockNames(r, p) == [k \in 1..BlockLen(r, p) |-> r.strings[BlockIdx(r, p)[k] + 1]]

ValidIndex(r, i) == 0 <= i /\ i < Len(r.strings)

\* Ascending order of a sequence of naturals, equal values in input order.
SortNat(s) ==
    LET perm == CHOOSE f \in Perms(1..Len(s)) :
                    \A i, j \in 1..Len(s) :
                        i < j => (s[f[i]] < s[f[j]] \/ (s[f[i]] = s[f[j]] /\ f[i] < f[j]))
    IN [i \in 1..Len(s) |-> s[perm[i]]]

\* cols stably sorted by table index, every column list sorted.
SortedCols(cols) ==
    LET perm == CHOOSE f \in Perms(1..Len(cols)) :
                    \A i, j \in 1..Len(cols) :
                        i < j => (cols[f[i]][1] < cols[f[j]][1]
                                  \/ (cols[f[i]][1] = cols[f[j]][1] /\ f[i] < f[j]))
    IN [i \in 1..Len(cols) |-> <<cols[perm[i]][1], SortNat(cols[perm[i]][2])>>]

(***************************************************************************)
(* C1: for a text that analyzes successfully, the request returned by the  *)
(* cache miss that stored the entry and the request returned by a later    *)
(* cache hit have identical strings, paths, path_dir, path_types and ops,  *)
(* and identical cols once sorted, whatever was analyzed in between.       *)
(***************************************************************************)
C1_MissAndHitIdentical ==
    \A t \in Threads :
        (Returned(t) /\ th[t].result.from = "hit") =>
            LET hit == th[t].result.request
                miss == th[t].result.stored
            IN /\ hit.strings = miss.strings
               /\ hit.paths = miss.paths
               /\ hit.path_dir = miss.path_dir
               /\ hit.path_types = miss.path_types
               /\ hit.ops = miss.ops
               /\ SortedCols(hit.cols) = SortedCols(miss.cols)

(***************************************************************************)
(* C2: while the entry stays in the cache every hit returns the request    *)
(* that was built when the entry was stored, unchanged and with the same   *)
(* query_id.                                                               *)
(***************************************************************************)
C2_HitReturnsStoredRequest ==
    \A t \in Threads :
        (Returned(t) /\ th[t].result.from = "hit") =>
            /\ th[t].result.request = th[t].result.stored
            /\ th[t].result.query_id = th[t].result.stored.query_id

(***************************************************************************)
(* C3: two threads that race on the same uncached text (both miss, both    *)
(* parse) return equal requests, and the cache then holds the entry of     *)
(* the insert that arrived last.                                           *)
(***************************************************************************)
C3_RacingMissesAgree ==
    \A t, u \in Threads :
        (/\ t # u
         /\ u \in th[t].raced
         /\ Returned(t) /\ th[t].result.from = "miss"
         /\ Returned(u) /\ th[u].result.from = "miss") =>
            /\ th[t].result.request = th[u].result.request
            /\ (/\ u \in th[t].after
                /\ th[t].result.query_id \in DOMAIN cache
                /\ cache[th[t].result.query_id].by \in {t, u})
                    => cache[th[t].result.query_id].by = t

(***************************************************************************)
(* C4: in every request returned, on a miss or on a hit and under any      *)
(* interleaving, every string index in paths, cols and ops is smaller      *)
(* than strings.len().                                                     *)
(***************************************************************************)
IndexClosed(r) ==
    /\ Tiled(r)
    /\ \A p \in 1..Len(r.path_dir) :
        \A k \in 1..BlockLen(r, p) : ValidIndex(r, BlockIdx(r, p)[k])
    /\ \A c \in 1..Len(r.cols) :
        /\ ValidIndex(r, r.cols[c][1])
        /\ \A k \in 1..Len(r.cols[c][2]) : ValidIndex(r, r.cols[c][2][k])
    /\ \A o \in 1..Len(r.ops) : ValidIndex(r, r.ops[o][1])

C4_StringTableClosure ==
    \A t \in Threads : Returned(t) => IndexClosed(th[t].result.request)

\* A hit served after other texts were interned: its string table is longer
\* than the one of the storing miss and holds the last name at its last index.
C4_Witness ==
    \E t \in Threads :
        /\ Returned(t) /\ th[t].result.from = "hit"
        /\ Len(th[t].result.request.strings) > Len(th[t].result.stored.strings)
        /\ \E p \in 1..Len(th[t].result.request.path_dir) :
                BlockLen(th[t].result.request, p) = 2

(***************************************************************************)
(* C5: every entry (t, cs) of cols has a non-empty column list and the     *)
(* one-segment path [t] is among the encoded paths with path type 0.       *)
(***************************************************************************)
ColsSound(r) ==
    \A c \in 1..Len(r.cols) :
        /\ r.cols[c][2] # <<>>
        /\ \E p \in 1..Len(r.path_dir) :
            /\ BlockLen(r, p) = 1
            /\ BlockIdx(r, p) = <<r.cols[c][1]>>
            /\ r.path_types[p] = 0

ScalarChildren(field) ==
    {field.selections[k].name : k \in {j \in 1..Len(field.selections) :
        IsField(field.selections[j]) /\ field.selections[j].selections = <<>>}}

HasColsFor(r, table, columns) ==
    \E c \in 1..Len(r.cols) :
        /\ r.strings[r.cols[c][1] + 1] = table
        /\ columns \subseteq {r.strings[r.cols[c][2][k] + 1] : k \in 1..Len(r.cols[c][2])}

C6_NestedRelationshipColumns ==
    \A t \in Threads :
        Returned(t) =>
            LET doc == Parse(th[t].query).document
            IN \A d \in 1..Len(doc) : \A i \in 1..Len(doc[d].selections) :
                LET root == doc[d].selections[i]
                IN \A j \in 1..Len(root.selections) :
                    LET nested == root.selections[j]
                    IN (/\ nested.selections # <<>>
                        /\ nested.name \notin ReservedContainers
                        /\ ScalarChildren(nested) # {}) =>
                            HasColsFor(th[t].result.request, nested.name, ScalarChildren(nested))

(***************************************************************************)
(* C7: in every request returned, built on a miss as well as on a hit, the *)
(* path blocks come in ascending element-wise order of their string-index  *)
(* sequences.                                                              *)
(***************************************************************************)
C7_PathsAscending ==
    \A t \in Threads :
        Returned(t) =>
            LET r == th[t].result.request
            IN \A p \in 1..(Len(r.path_dir) - 1) : LexLess(BlockIdx(r, p), BlockIdx(r, p + 1))

(***************************************************************************)
(* C8: decoding a request reproduces exactly the extractor's path set:     *)
(* one path_dir and path_types entry per discovered path, path_dir[p] the  *)
(* offset of block p, each block a length followed by that many string     *)
(* indices, the decoded set of string paths equal to the extractor's set,  *)
(* and path_types[p] = 0 exactly when the path has length 1, else 1.       *)
(***************************************************************************)
DecodesTo(r, field_paths) ==
    /\ Tiled(r)
    /\ Len(r.path_dir) = Cardinality(field_paths)
    /\ \A p \in 1..Len(r.path_dir) :
        \A k \in 1..BlockLen(r, p) : ValidIndex(r, BlockIdx(r, p)[k])
    /\ {BlockNames(r, p) : p \in 1..Len(r.path_dir)} = field_paths
    /\ \A p \in 1..Len(r.path_dir) :
        r.path_types[p] = (IF BlockLen(r, p) = 1 THEN 0 ELSE 1)

C8_DecodeRoundTrip ==
    \A t \in Threads :
        Returned(t) =>
            DecodesTo(th[t].result.request, analysis[th[t].query].ext.field_paths)

\* A hit on a text with a table and a relationship path, answered after
\* another text put its names first in the interner.
C8_Witness ==
    \E t \in Threads :
        /\ Returned(t) /\ th[t].result.from = "hit"
        /\ Len(th[t].result.request.path_dir) = 2
        /\ th[t].result.request.strings[1] = "update_users"

(***************************************************************************)
(* What a document contains, read off the AST                              *)
(***************************************************************************)
RECURSIVE SelectionsOf(_)
\* Every selection of a selection set, at any depth.
SelectionsOf(sels) ==
    Range(sels) \cup UNION {SelectionsOf(sels[k].selections) : k \in {j \in 1..Len(sels) : IsField(sels[j])}}

OperationsOf(document) == {document[i] : i \in {j \in 1..Len(document) : document[j].t = "Operation"}}

AllSelections(document) == UNION {SelectionsOf(op.selections) : op \in OperationsOf(document)}

AllFields(document) == {sel \in AllSelections(document) : IsField(sel)}

ContainsFragment(document) ==
    \/ \E i \in 1..Len(document) : document[i].t = "Fragment"
    \/ \E sel \in AllSelections(document) : sel.t \in {"FragmentSpread", "InlineFragment"}

ContainsOperationOrFieldDirective(document) ==
    \/ \E op \in OperationsOf(document) : op.directives
    \/ \E f \in AllFields(document) : f.directives

ContainsDirective(document) ==
    \/ ContainsOperationOrFieldDirective(document)
    \/ \E op \in OperationsOf(document) : op.var_directives

\* A list given for object, or a list directly inside the list given for objects.
BadObjectsValue(value, single) ==
    /\ value.t = "List"
    /\ single \/ \E k \in 1..Len(value.children) : value.children[k].t = "List"

InvalidMutationArgument(document, cfg) ==
    \E f \in AllFields(document) : \E k \in 1..Len(f.arguments) :
        LET arg == f.arguments[k]
        IN \/ /\ StartsWith(f.name, cfg.insert_prefix)
              /\ arg.name \in {"objects", "object"}
              /\ BadObjectsValue(arg.value, arg.name = "object")
           \/ /\ StartsWith(f.name, cfg.update_prefix)
              /\ arg.name = "_set"
              /\ arg.value.t \notin {"Object", "Variable"}

\* Calls that returned and were made after init.
ReturnedAfterInit(t) ==
    /\ th[t].pc = "done"
    /\ ~(th[t].result.status = "error" /\ th[t].result.err = "GraSQL not initialized")

EndsInError(t) ==
    /\ th[t].pc # "done"
    /\ th'[t].pc = "done"
    /\ th'[t].result.status = "error"

C10_ErrorsNeverCached ==
    [][\A t \in Threads :
        EndsInError(t) =>
            /\ cache' = cache
            /\ generate_query_id(th'[t].query) \notin DOMAIN cache'
            /\ \A u \in Threads \ {t} :
                (/\ th'[u].pc = "done"
                 /\ th'[u].query = th'[t].query
                 /\ th'[u].result.status = "ok") =>
                    th'[t].result.err = "GraSQL not initialized"]_vars

\* An invalid _set argument was rejected, after part of the query was
\* interned, while the cache held an entry of another text.
C10_Witness ==
    \E t \in Threads :
        /\ th[t].pc = "done"
        /\ th[t].result.status = "error"
        /\ th[t].result.err = "_set parameter must be an object"
        /\ DOMAIN cache # {}

(***************************************************************************)
(* Operation kinds read off a document                                     *)
(***************************************************************************)
\* Positions of the operation definitions of a document.
OperationPositions(doc) == {i \in 1..Len(doc) : doc[i].t = "Operation"}

\* The kind a mutation gets from the name of its first root field.
RefinedMutationKind(op, cfg) ==
    LET name == op.selections[1].name
    IN IF StartsWith(name, cfg.insert_prefix) THEN "InsertMutation"
       ELSE IF StartsWith(name, cfg.update_prefix) THEN "UpdateMutation"
       ELSE IF StartsWith(name, cfg.delete_prefix) THEN "DeleteMutation"
       ELSE "InsertMutation"

KindOfOperation(op, cfg) ==
    IF op.operation = "Mutation" THEN RefinedMutationKind(op, cfg) ELSE op.operation

\* Mutations with a non-empty selection set that starts with a field.
MutationPositions(doc) ==
    {i \in OperationPositions(doc) :
        doc[i].operation = "Mutation" /\ doc[i].selections # <<>> /\ IsField(doc[i].selections[1])}

Least(S) == CHOOSE i \in S : \A j \in S : i <= j

Greatest(S) == CHOOSE i \in S : \A j \in S : j <= i

(***************************************************************************)
(* C11: the operation kind recorded for a document is the kind of its      *)
(* first operation definition (a mutation refined by the prefix of its     *)
(* first root field, no match giving InsertMutation); later operation      *)
(* definitions do not change it.                                           *)
(***************************************************************************)
C11_KindOfFirstOperation ==
    \A t \in Threads :
        Returned(t) =>
            LET doc == Parse(th[t].query).document
            IN th[t].result.operation_kind = KindOfOperation(doc[Least(OperationPositions(doc))], config)

(***************************************************************************)
(* C11 as amended: the recorded kind is the refined kind of the last       *)
(* mutation of the document when it has a mutation; without a mutation it  *)
(* is Subscription when the document has a subscription and Query          *)
(* otherwise.                                                              *)
(***************************************************************************)
C11_KindByPriority ==
    \A t \in Threads :
        Returned(t) =>
            LET doc == Parse(th[t].query).document
            IN th[t].result.operation_kind =
                (IF MutationPositions(doc) # {}
                 THEN RefinedMutationKind(doc[Greatest(MutationPositions(doc))], config)
                 ELSE IF \E i \in OperationPositions(doc) : doc[i].operation = "Subscription"
                 THEN "Subscription"
                 ELSE "Query")

\* A document that starts with a query and continues with a mutation was
\* recorded as a mutation.
C11_Witness ==
    \E t \in Threads :
        /\ Returned(t)
        /\ LET doc == Parse(th[t].query).document
           IN /\ Len(doc) >= 2
              /\ doc[1].operation = "Query"
              /\ th[t].result.operation_kind = "UpdateMutation"

(***************************************************************************)
(* C12: when a document holds a query or subscription and a mutation with  *)
(* a non-empty selection set, in either order, the recorded kind is the    *)
(* mutation's refined kind.                                                *)
(***************************************************************************)
C12_MutationTakesPriority ==
    \A t \in Threads :
        Returned(t) =>
            LET doc == Parse(th[t].query).document
            IN \A m \in MutationPositions(doc) :
                (/\ \E i \in OperationPositions(doc) : doc[i].operation # "Mutation"
                 /\ \A n \in MutationPositions(doc) :
                        RefinedMutationKind(doc[n], config) = RefinedMutationKind(doc[m], config))
                    => th[t].result.operation_kind = RefinedMutationKind(doc[m], config)

\* A delete mutation followed by a subscription was recorded as a delete.
C12_Witness ==
    \E t \in Threads :
        /\ Returned(t)
        /\ LET doc == Parse(th[t].query).document
           IN /\ Len(doc) = 2
              /\ doc[1].operation = "Mutation"
              /\ doc[2].operation = "Subscription"
              /\ th[t].result.operation_kind = "DeleteMutation"

(***************************************************************************)
(* C13: ops has exactly one entry per root-level field selection, over the *)
(* operation definitions in document order and the selections of each in   *)
(* order; an entry is (string index of the field name, op_type) with       *)
(* op_type 0 in a query, 4 in a subscription and, in a mutation, 1, 2 or 3 *)
(* for the insert, update or delete prefix (tested in that order) and 1    *)
(* when no prefix matches.                                                 *)
(***************************************************************************)
RECURSIVE RootFieldsFrom(_, _)
\* <<operation, field name>> of every root-level field selection from
\* definition i on.
RootFieldsFrom(doc, i) ==
    IF i > Len(doc) THEN <<>>
    ELSE (IF doc[i].t = "Operation"
          THEN LET fields == SelectSeq(doc[i].selections, IsField)
               IN [k \in 1..Len(fields) |-> <<doc[i].operation, fields[k].name>>]
          ELSE <<>>) \o RootFieldsFrom(doc, i + 1)

ExpectedOpType(operation, name, cfg) ==
    IF operation = "Query" THEN 0
    ELSE IF operation = "Subscription" THEN 4
    ELSE IF StartsWith(name, cfg.insert_prefix) THEN 1
    ELSE IF StartsWith(name, cfg.update_prefix) THEN 2
    ELSE IF StartsWith(name, cfg.delete_prefix) THEN 3
    ELSE 1

OpsMatch(r, doc, cfg) ==
    \E roots \in {RootFieldsFrom(doc, 1)} :
        /\ Len(r.ops) = Len(roots)
        /\ \A k \in 1..Len(roots) :
            /\ ValidIndex(r, r.ops[k][1])
            /\ r.strings[r.ops[k][1] + 1] = roots[k][2]
            /\ r.ops[k][2] = ExpectedOpType(roots[k][1], roots[k][2], cfg)

C13_OpsPerRootField ==
    \A t \in Threads :
        Returned(t) => OpsMatch(th[t].result.request, Parse(th[t].query).document, config)

\* A mutation with a delete and an insert root field followed by a
\* subscription: three entries, of types 3, 1 and 4.
C13_Witness ==
    \E t \in Threads :
        /\ Returned(t)
        /\ Len(th[t].result.request.ops) = 3
        /\ th[t].result.request.ops[1][2] = 3
        /\ th[t].result.request.ops[2][2] = 1
        /\ th[t].result.request.ops[3][2] = 4

(***************************************************************************)
(* Query ids                                                               *)
(***************************************************************************)
\* Calls of generate_query_id that have returned.
HasId(t) == th[t].pc = "done" /\ th[t].result.status = "id"

\* C14: the query id of every text is exactly 16 lowercase hexadecimal
\* characters, the full-width rendering of the 64-bit fingerprint of the
\* text, leading zeros included.
C14_IdIsSixteenHexDigits ==
    \A t \in Threads :
        HasId(t) =>
            LET id == th[t].result.query_id
                hash == th[t].result.hash
            IN /\ Len(id) = 16
               /\ \A i \in 1..Len(id) : id[i] = HexDigits[hash[i] + 1]

(***************************************************************************)
(* The cache policy                                                        *)
(***************************************************************************)
\* The cache has applied every logged operation.
Quiescent == policy.created /\ policy.reads = <<>> /\ policy.writes = <<>>

\* The keys whose entry, as far as callers can tell, has not reached its
\* time to live.
Fresh == {k \in DOMAIN policy.stored : clock < policy.stored[k] + policy.time_to_live}

\* The n most recently used keys.
RecentlyUsed(n) ==
    {policy.used[i] : i \in {j \in 1..Len(policy.used) : j > Len(policy.used) - n}}

\* C15: the cache holds at most N_max entries, and an insert into a full
\* cache keeps the new entry and evicts the least recently used one, gets and
\* inserts both counting as uses: once the cache has applied its pending
\* operations, the N_max most recently used keys that were stored and have
\* not expired are the ones it holds.
C15_BoundedWithLruEviction ==
    Quiescent =>
        /\ Cardinality(DOMAIN cache) <= policy.max_capacity
        /\ \A k \in RecentlyUsed(policy.max_capacity) \cap Fresh : k \in DOMAIN cache

\* The call that thread t has just returned from, made at a time later than
\* the time to live after a caller last stored its text.
AfterTtl(result, p) ==
    /\ result.status = "ok"
    /\ result.prior >= 0
    /\ result.at > result.prior + p.time_to_live

\* C16: an entry stored at time t is not returned by a get made later than
\* t + T, read in between or not: a do_parse_query call made then takes the
\* miss path, parses the text again and leaves a fresh entry, stamped with
\* the time of the call, in the cache.
C16_ExpiresAfterTtl ==
    [][\A t \in Threads :
        (ncalls' = ncalls + 1 /\ th'[t] # th[t] /\ AfterTtl(th'[t].result, policy'))
            => /\ th'[t].result.from = "miss"
               /\ th'[t].result.query_id \in DOMAIN cache'
               /\ cache'[th'[t].result.query_id].request = th'[t].result.request
               /\ policy'.last_modified[th'[t].result.query_id] = clock'
               /\ LiveEntry(cache', policy', th'[t].result.query_id, clock') # NoValue]_vars

\* A call made after the time to live of an entry that was also read while
\* it was live: the text has been looked up three times.
C16_Witness ==
    \E t \in Threads :
        /\ th[t].pc = "done"
        /\ AfterTtl(th[t].result, policy)
        /\ th[t].result.from = "miss"
        /\ Frequency(policy, th[t].result.query_id) >= 3
        /\ th[t].result.query_id \in DOMAIN cache

(***************************************************************************)
(* Records and arenas                                                      *)
(***************************************************************************)
\* The records that exist: the cache's entries and the callers' clones.
Holders ==
    {<<"cache", k>> : k \in DOMAIN cache} \cup
    {<<"clone", t>> : t \in {u \in Threads : th[u].hit # NoValue}}

RecordOf(h) == IF h[1] = "cache" THEN cache[h[2]] ELSE th[h[2]].hit

HoldersOf(id) == {h \in Holders : RecordOf(h).ast_context = id}

\* C17: an arena is released only when the cache entry and every clone
\* handed out by get are gone: its reference count is the number of records
\* holding it, it is freed exactly when that number is zero, and document()
\* on a held record reads from a live arena, also after the entry was
\* evicted or overwritten.
C17_ArenaOutlivesHolders ==
    /\ \A id \in DOMAIN arenas :
        /\ arenas[id].strong = Cardinality(HoldersOf(id))
        /\ arenas[id].released <=> HoldersOf(id) = {}
    /\ \A t \in Threads :
        (th[t].result.status = "document" /\ th[t].result.outcome # "none") => th[t].result.live

\* A caller has read a document through its clone after the cache entry it
\* was cloned from was evicted or replaced.
C17_Witness ==
    \E t \in Threads :
        /\ th[t].pc = "held"
        /\ th[t].result.outcome = "borrow"
        /\ HoldersOf(th[t].hit.ast_context) = {<<"clone", t>>}
        /\ arenas[th[t].hit.ast_context].strong = 1
        /\ generate_query_id(th[t].query) \in DOMAIN cache

\* C18: once a record is built nothing done through it, document() with its
\* re-parse fallback included, allocates in or modifies its arena.
C18_ArenaReadOnly ==
    \A id \in DOMAIN arenas : ~arenas[id].written

\* The result of the last document() call of thread t on its clone.
Answered(t) == th[t].pc = "held" /\ th[t].result.status = "document"

\* C19 as claimed: document() on a record that retains the query text
\* returns a document whenever the stored borrow or the arena handle is
\* absent.
C19_ReparsesWheneverTextRetained ==
    \A t \in Threads :
        (Answered(t) /\ th[t].hit.original_query # 0) => th[t].result.outcome # "none"

\* C19: document() on a record that holds its arena and retains the text it
\* was parsed from returns a document - the stored borrow when present, a
\* fresh one re-parsed into the held arena when the borrow is absent; on a
\* record without the arena handle it returns nothing, text or no text.
C19_ReparsesIntoHeldArena ==
    \A t \in Threads :
        Answered(t) =>
            LET info == th[t].hit
                doc == th[t].result
            IN /\ (info.ast_context # 0 /\ info.document_ptr # 0) => doc.outcome = "borrow"
               /\ (info.ast_context # 0 /\ info.document_ptr = 0 /\ info.original_query # 0)
                    => (doc.outcome = "reparsed" /\ doc.arena = info.ast_context)
               /\ info.ast_context = 0 => doc.outcome = "none"
               /\ (info.document_ptr = 0 /\ info.original_query = 0) => doc.outcome = "none"

\* document() took the fallback on a record without stored borrow.
C19_Witness ==
    \E t \in Threads :
        /\ Answered(t)
        /\ th[t].hit.document_ptr = 0
        /\ th[t].hit.original_query # 0
        /\ th[t].result.outcome = "reparsed"

(***************************************************************************)
(* The extractor's output                                                  *)
(***************************************************************************)
\* The extractor output of the text thread t submitted, once the call has
\* returned Ok.
Extracted(t) == analysis[th[t].query].ext

\* C20: in the extractor's output every key of the column-usage map is one
\* of the returned paths, and every column set in the map is non-empty.
C20_ColumnKeysArePaths ==
    \A t \in Threads :
        Returned(t) =>
            \A key \in DOMAIN Extracted(t).column_usage :
                /\ key \in Extracted(t).field_paths
                /\ Extracted(t).column_usage[key] # {}

(***************************************************************************)
(* The extractor's output on a document                                    *)
(***************************************************************************)
\* Extractions that have returned Ok.
ExtractedOk(t) == th[t].pc = "done" /\ th[t].result.status = "extracted"

ExtractedDocument(t) == ExtractionDocuments[th[t].result.doc]

\* The column set recorded for a path; empty when the path has no entry.
ColumnsOf(r, path) == IF path \in DOMAIN r.column_usage THEN r.column_usage[path] ELSE {}

FieldIndexes(sels) == {i \in 1..Len(sels) : IsField(sels[i])}

\* Names of the fields of a selection set that select nothing themselves.
LeafNames(sels) == {sels[i].name : i \in {j \in FieldIndexes(sels) : sels[j].selections = <<>>}}

\* The fields of a selection set that have a selection set of their own.
NestedFields(sels) == {sels[i] : i \in {j \in FieldIndexes(sels) : sels[j].selections # <<>>}}

RECURSIVE Located(_, _)
\* Every field below a selection set together with its path from the root.
Located(sels, parent) ==
    UNION {{[path |-> Append(parent, sels[i].name), field |-> sels[i]]}
           \cup Located(sels[i].selections, Append(parent, sels[i].name)) : i \in FieldIndexes(sels)}

LocatedFields(document) == UNION {Located(op.selections, <<>>) : op \in OperationsOf(document)}

\* The aggregate/returning/nodes children of a field that select something.
Containers(field) == {c \in NestedFields(field.selections) : c.name \in ReservedContainers}

\* Names that are columns of a field for a reason other than a nested
\* grandchild: its leaf children and the leaf grandchildren of its containers.
LeafColumns(field) ==
    LeafNames(field.selections) \cup UNION {LeafNames(c.selections) : c \in Containers(field)}

\* C21: for a field at path P with a child named aggregate, returning or
\* nodes that has a selection set, every leaf grandchild is a column of P, the
\* path P + [child] is in the path set with the same leaf grandchildren as
\* its columns, and a grandchild with a selection set of its own is no
\* column of P.
C21_ContainersLiftLeafGrandchildren ==
    \A t \in Threads : ExtractedOk(t) =>
        \A f \in LocatedFields(ExtractedDocument(t)) :
            \A c \in Containers(f.field) :
                /\ LeafNames(c.selections) \subseteq ColumnsOf(th[t].result, f.path)
                /\ Append(f.path, c.name) \in th[t].result.field_paths
                /\ LeafNames(c.selections) \subseteq ColumnsOf(th[t].result, Append(f.path, c.name))
                /\ \A g \in NestedFields(c.selections) :
                        g.name \notin LeafColumns(f.field)
                            => g.name \notin ColumnsOf(th[t].result, f.path)

\* An extraction of a document whose container child has a leaf grandchild
\* and a nested one: { users { aggregate { count max { age } } name } }.
C21_Witness ==
    \E t \in Threads :
        /\ ExtractedOk(t)
        /\ \E f \in LocatedFields(ExtractedDocument(t)) :
              \E c \in Containers(f.field) :
                /\ LeafNames(c.selections) # {}
                /\ NestedFields(c.selections) # {}
                /\ LeafNames(c.selections) \subseteq ColumnsOf(th[t].result, f.path)

\* The where arguments of a field.
WhereValues(field) ==
    {field.arguments[i].value : i \in {j \in 1..Len(field.arguments) : field.arguments[j].name = "where"}}

IsOrdinary(name) == ~StartsWith(name, "_")

HoldsOperator(value) == \E k \in 1..Len(value.children) : ~IsOrdinary(value.children[k].name)

RECURSIVE ReachedMembers(_, _)
\* The ordinary members the traversal of a filter value meets, each with the
\* path of the member or field that holds it: members of objects, through
\* lists and through the lists of _and and _or, never below another operator
\* and never below a member whose value is no object.
ReachedMembers(value, parent) ==
    IF value.t = "Object"
    THEN UNION {LET m == value.children[k]
                IN IF ~IsOrdinary(m.name)
                   THEN IF m.name \in {"_and", "_or"} /\ m.value.t = "List"
                        THEN ReachedMembers(m.value, parent) ELSE {}
                   ELSE {[parent |-> parent, member |-> m]}
                        \cup (IF m.value.t = "Object"
                              THEN ReachedMembers(m.value, Append(parent, m.name)) ELSE {})
                : k \in 1..Len(value.children)}
    ELSE IF value.t = "List"
    THEN UNION {ReachedMembers(value.children[k], parent) : k \in 1..Len(value.children)}
    ELSE {}

\* The ordinary members met in the where arguments of a document's fields.
FilterMembersOf(document) ==
    UNION {UNION {ReachedMembers(w, f.path) : w \in WhereValues(f.field)} : f \in LocatedFields(document)}

\* C22: an ordinary member met in a where argument at Q = parent + [name] is
\* in the path set exactly when its value is an object, and its name is a
\* column of the parent path exactly when its value is no object or is an
\* object holding a member whose name starts with '_'.
C22_FilterMemberPathAndColumn ==
    \A t \in Threads : ExtractedOk(t) =>
        \A x \in FilterMembersOf(ExtractedDocument(t)) :
            /\ Append(x.parent, x.member.name) \in th[t].result.field_paths
                    <=> x.member.value.t = "Object"
            /\ x.member.name \in ColumnsOf(th[t].result, x.parent)
                    <=> (x.member.value.t # "Object" \/ HoldsOperator(x.member.value))

\* An extraction that met, below a relationship of the filter, a member
\* holding only operators and recorded it both as a path and as a column.
C22_Witness ==
    \E t \in Threads :
        /\ ExtractedOk(t)
        /\ \E x \in FilterMembersOf(ExtractedDocument(t)) :
              /\ Len(x.parent) = 2
              /\ x.member.value = IdEq
              /\ Append(x.parent, x.member.name) \in th[t].result.field_paths
              /\ x.member.name \in ColumnsOf(th[t].result, x.parent)

\* Extractions that have returned, but for those that found no configuration.
Finished(t) ==
    /\ th[t].pc = "done"
    /\ th[t].result.status \in {"extracted", "error"}
    /\ th[t].result.status = "error" => th[t].result.err # "GraSQL not initialized; missing config"

\* The objects and object arguments of the insert-prefixed fields of a document.
InsertArguments(document) ==
    UNION {{[path |-> f.path, arg |-> f.field.arguments[i]] :
                i \in {j \in 1..Len(f.field.arguments) : f.field.arguments[j].name \in {"objects", "object"}}}
           : f \in {g \in LocatedFields(document) : StartsWith(g.field.name, DefaultConfig.insert_prefix)}}

MemberNames(value) == {value.children[k].name : k \in 1..Len(value.children)}

RECURSIVE ObjectNamesDeep(_)
\* The top-level names of the objects of a value, lists opened at any depth.
ObjectNamesDeep(value) ==
    IF value.t = "Object" THEN MemberNames(value)
    ELSE IF value.t = "List"
    THEN UNION {ObjectNamesDeep(value.children[k]) : k \in 1..Len(value.children)}
    ELSE {}

HasListElement(value) ==
    value.t = "List" /\ \E k \in 1..Len(value.children) : value.children[k].t = "List"

SingleObjectExpected(t) ==
    th[t].result.status = "error" /\ th[t].result.err = "Expected a single object but got an array"

\* C23 as stated: a list for object is an invalid-input error, while a
\* value of objects is never rejected, lists inside its list being opened
\* like the list itself and their objects giving columns.
C23_NestedListsAccepted ==
    \A t \in Threads : Finished(t) =>
        \A x \in InsertArguments(ExtractedDocument(t)) :
            IF x.arg.name = "object" /\ x.arg.value.t = "List"
            THEN SingleObjectExpected(t)
            ELSE /\ th[t].result.status = "extracted"
                 /\ ObjectNamesDeep(x.arg.value) \subseteq ColumnsOf(th[t].result, x.path)

\* C23, amended: a list for object is an invalid-input error; the elements
\* of a list for objects are each taken as a value of object, so a list
\* among them is the same error, and otherwise the names of the object and
\* of the objects in the list are columns of the field.
C23_ListElementsAreSingleObjects ==
    \A t \in Threads : Finished(t) =>
        \A x \in InsertArguments(ExtractedDocument(t)) :
            IF \/ x.arg.name = "object" /\ x.arg.value.t = "List"
               \/ x.arg.name = "objects" /\ HasListElement(x.arg.value)
            THEN SingleObjectExpected(t)
            ELSE /\ th[t].result.status = "extracted"
                 /\ ObjectNamesDeep(x.arg.value) \subseteq ColumnsOf(th[t].result, x.path)

\* An extraction rejected for a list inside the list given for objects.
C23_Witness ==
    \E t \in Threads :
        /\ Finished(t)
        /\ SingleObjectExpected(t)
        /\ \E x \in InsertArguments(ExtractedDocument(t)) :
              x.arg.name = "objects" /\ HasListElement(x.arg.value)

\* The fields of a document that are given a variable for objects or object
\* (insert-prefixed fields) or for _set (update-prefixed fields).
VariableMutations(document) ==
    {f \in LocatedFields(document) :
        \E i \in 1..Len(f.field.arguments) :
            /\ f.field.arguments[i].value.t = "Variable"
            /\ \/ /\ StartsWith(f.field.name, DefaultConfig.insert_prefix)
                  /\ f.field.arguments[i].name \in {"objects", "object"}
               \/ /\ StartsWith(f.field.name, DefaultConfig.update_prefix)
                  /\ f.field.arguments[i].name = "_set"}

\* The names of the fields selected anywhere in a document.
SelectedNames(document) == {f.field.name : f \in LocatedFields(document)}

\* C24: a field given a variable for objects, object or _set is in the path
\* set, selection set or not, and the argument adds no column: every column
\* is the name of a selected field.
C24_VariableGivesPathOnly ==
    \A t \in Threads : ExtractedOk(t) =>
        \A f \in VariableMutations(ExtractedDocument(t)) :
            /\ f.path \in th[t].result.field_paths
            /\ \A p \in DOMAIN th[t].result.column_usage :
                    th[t].result.column_usage[p] \subseteq SelectedNames(ExtractedDocument(t))

\* An extraction of a mutation whose field has a variable argument and no
\* selection set: the path is recorded and there is no column at all.
C24_Witness ==
    \E t \in Threads :
        /\ ExtractedOk(t)
        /\ \E f \in VariableMutations(ExtractedDocument(t)) :
              /\ f.field.selections = <<>>
              /\ f.path \in th[t].result.field_paths
        /\ DOMAIN th[t].result.column_usage = {}

\* A path without its last name.
ParentPath(path) == SubSeq(path, 1, Len(path) - 1)

\* C25: the returned path set is prefix-closed: with a path of more than one
\* name it holds the path of the parent, for every document, the ones
\* filtering a field that has no selection set among them.
C25_PathSetPrefixClosed ==
    \A t \in Threads : ExtractedOk(t) =>
        \A path \in th[t].result.field_paths :
            Len(path) > 1 => ParentPath(path) \in th[t].result.field_paths

\* Extractions in progress stand between two root selections of a pass.
BetweenRoots(t) == th[t].pc = "extracting"

\* Threads that have an extractor, running or returned.
HasExtractor(t) == th[t].result.status \in {"extracting", "extracted", "error"}

RootNames(document) ==
    UNION {{op.selections[i].name : i \in FieldIndexes(op.selections)} : op \in OperationsOf(document)}

RECURSIVE ValueChains(_, _)
\* The name sequences that lead from parent down to a member of an argument
\* value; lists and members whose name starts with '_' add no name.
ValueChains(value, parent) ==
    IF value.t = "Object"
    THEN UNION {LET m == value.children[k]
                IN IF IsOrdinary(m.name)
                   THEN {Append(parent, m.name)} \cup ValueChains(m.value, Append(parent, m.name))
                   ELSE ValueChains(m.value, parent)
                : k \in 1..Len(value.children)}
    ELSE IF value.t = "List"
    THEN UNION {ValueChains(value.children[k], parent) : k \in 1..Len(value.children)}
    ELSE {}

\* Every sequence of names read from a root field down through nested
\* fields and on through the members of an argument.
NameChains(document) ==
    {f.path : f \in LocatedFields(document)}
    \cup UNION {UNION {ValueChains(f.field.arguments[i].value, f.path) : i \in 1..Len(f.field.arguments)}
                : f \in LocatedFields(document)}

\* C26: between two root selections of any pass, and at the Ok return,
\* current_path is empty; every recorded path has a name, starts at a root
\* field of the document and lists the names down to its position in
\* nesting order.
C26_PathsStartAtRoot ==
    \A t \in Threads :
        /\ BetweenRoots(t) \/ ExtractedOk(t) => th[t].result.ext.current_path = <<>>
        /\ HasExtractor(t) =>
              \A path \in th[t].result.ext.field_paths :
                /\ Len(path) >= 1
                /\ path[1] \in RootNames(ExtractedDocument(t))
                /\ path \in NameChains(ExtractedDocument(t))

\* The visitor has gone four fields down and come back: the filter pass is
\* about to start on an empty current_path.
C26_Witness ==
    \E t \in Threads :
        /\ BetweenRoots(t)
        /\ th[t].result.pass = "filter"
        /\ th[t].result.ext.current_path = <<>>
        /\ \E path \in th[t].result.ext.field_paths : Len(path) = 4

(***************************************************************************)
(* The string table across requests                                        *)
(***************************************************************************)
IsPrefix(a, b) == Len(a) <= Len(b) /\ SubSeq(b, 1, Len(a)) = a

\* The string tables of the requests a thread holds: the one it has built
\* and not yet returned, and the one it returned last.
StringTables(thread) ==
    (IF thread.request # NoValue THEN {thread.request.strings} ELSE {})
    \cup (IF thread.pc = "done" /\ thread.result.status = "ok"
          THEN {thread.result.request.strings} ELSE {})

\* C27: the string table only grows at its end: the interner extends in
\* every step, and the table of a request whose snapshot is taken in a step
\* extends the table of every request built before, whatever other threads
\* intern in between.
C27_StringTableGrowsAtEnd ==
    [][/\ IsPrefix(get_all_strings(interner), get_all_strings(interner'))
       /\ \A t \in Threads :
            th[t].pc \in {"extract", "hit"} /\ th'[t].pc \in {"insert", "done"} =>
                \A later \in StringTables(th'[t]) :
                    \A u \in Threads : \A earlier \in StringTables(th[u]) :
                        IsPrefix(earlier, later)]_vars

\* Two returned requests, the table of one a proper prefix of the other's.
C27_Witness ==
    \E t, u \in Threads :
        /\ Returned(t) /\ Returned(u)
        /\ Len(th[t].result.request.strings) < Len(th[u].result.request.strings)
        /\ IsPrefix(th[t].result.request.strings, th[u].result.request.strings)

(***************************************************************************)
(* The interner after a rejected query                                     *)
(***************************************************************************)
\* The only call the process has seen so far has returned an error.
FirstCallFailed(t) ==
    /\ ncalls = 1
    /\ th[t].pc = "done"
    /\ th[t].result.status = "error"

\* C28: a parse_query call that returns an error leaves the interner as it
\* found it, as it does the cache: when the first call of a process has
\* failed, no name is interned and nothing is cached.
C28_ErrorLeavesInternerUnchanged ==
    \A t \in Threads : FirstCallFailed(t) => interner = <<>> /\ cache = <<>>

(***************************************************************************)
(* Texts of equal fingerprint                                              *)
(***************************************************************************)
\* C29: parse_query never answers with the analysis of another text: the
\* operation name and the operation kind a call returns are those of the
\* text it was given, also when a text of the same fingerprint is cached.
C29_AnalysisOfOwnText ==
    \A t \in Threads : Returned(t) =>
        /\ th[t].result.operation_name = OperationName(Parse(th[t].query).document)
        /\ th[t].result.operation_kind = analysis[th[t].query].operation_kind

(***************************************************************************)
(* The cache's settings over the life of the process                       *)
(***************************************************************************)
\* The capacity and time to live create_cache_from_config reads from cfg.
SettingsOf(cfg) ==
    IF cfg = NoConfig THEN <<1000, 600>>
    ELSE <<cfg.query_cache_max_size, cfg.query_cache_ttl_seconds>>

Settings(p) == <<p.max_capacity, p.time_to_live>>

\* A call that got as far as the cache returned in this step.
TouchesCache(t) ==
    /\ th'[t] # th[t]
    /\ ~(th'[t].result.status = "error" /\ th'[t].result.err = "GraSQL not initialized")

\* C30: the cache takes its capacity and time to live from the configuration
\* once, in the first call that gets or inserts, and keeps them: they are
\* those of the configuration of that moment, the defaults 1000 and 600 when
\* none is installed, and no later installation changes them.
C30_SettingsReadOnceAtFirstAccess ==
    [][/\ (\E t \in Threads : TouchesCache(t)) => policy'.created
       /\ ~policy.created /\ policy'.created =>
            /\ \E t \in Threads : TouchesCache(t)
            /\ Settings(policy') = SettingsOf(config)
       /\ policy.created => policy'.created /\ Settings(policy') = Settings(policy)]_vars

\* The cache was first touched before init and a configuration with other
\* settings is installed: the defaults are still in force after a later call.
C30_Witness ==
    /\ policy.created
    /\ Settings(policy) = <<1000, 600>>
    /\ config = CacheConfig
    /\ \E t \in Threads : Returned(t)

=============================================================================
